---- MODULE Spec2Model ----
(***************************************************************************)
(* Model of the idempotent order pipeline of website-assistant-v2:         *)
(*   - the Payment Gateway's checkout.session.completed path               *)
(*     (agent2_payment_gateway.py), with its per-session lock, the         *)
(*     idempotency store, the order store and the audit log;               *)
(*   - the idempotency store driven directly by concurrent callers;        *)
(*   - ProductionOrder.transition_to as a pure function;                   *)
(*   - the Delivery Agent's token exchange (agent3_delivery_agent.py);     *)
(*   - process_webhook with its background task and dead-letter queue;     *)
(*   - the in-process event bus with the integrations subscribed to it     *)
(*     (event_bus_adapter.py, agent_integrations.py);                      *)
(*   - the checkout path under lock timeouts; the circuit breaker;         *)
(*   - the Delivery Agent's handling of SendGrid events and its bounce     *)
(*     alerts; webhooks of unhandled types; checkout.session.expired.      *)
(*                                                                         *)
(* Every await on an injected collaborator (a store, the URL generator)    *)
(* is a scheduling point: an action is the code between two such points.   *)
(* asyncio primitives that do not suspend when uncontended (Lock.locked,   *)
(* an uncontended Lock.acquire) stay inside the action that reaches them.  *)
(***************************************************************************)
EXTENDS Integers, Sequences, FiniteSets, TLC

\* ------------------------------------------------------------------ bounds
\* number of concurrent checkout.session.completed deliveries
NDeliveries == 3
\* number of charge.refunded webhooks handled
MaxRefunds == 1
\* number of calls of PaymentGatewayIntegration.on_payment_confirmed
MaxPublish == 1
\* number of direct callers of the idempotency store
NCallers == 3
\* highest version a snapshot reaches under repeated transition_to
MaxVersion == 3
\* number of exchange_token_for_download calls
NExchanges == 3
\* highest max_downloads a DeliveryToken is created with
MaxDownloads == 1
\* number of process_webhook calls
NWebhooks == 2
\* number of events retry_dlq_events routes again
MaxDlqRetries == 1
\* number of tasks that call InMemoryEventBus.publish from outside a handler
NPublishers == 2
\* highest failure_threshold a CircuitBreaker is constructed with
MaxThreshold == 3
\* highest reset_timeout a CircuitBreaker is constructed with, in clock ticks
MaxResetTimeout == 2
\* highest value of CircuitBreaker._failures followed
MaxFailures == 4
\* highest reading of the clock (datetime.utcnow), in ticks
MaxClock == 4
\* number of callers followed that can_execute admits to one half-open phase
MaxTrials == 2
\* number of checkout.session.expired webhooks handled
MaxExpired == 1
\* number of calls made through with_circuit_breaker
NWrappedCalls == 3
\* number of notifications _send_notification saves
NNotifications == 3
\* number of events in the list handle_sendgrid_webhook is given
NCallbacks == 3

\* --------------------------------------------------------------- settings
\* Settings.DLQ_MAX_RETRIES
DLQ_MAX_RETRIES == 3
\* the Delivery Agent's Settings.MAX_DOWNLOADS_PER_TOKEN
MAX_DOWNLOADS_PER_TOKEN == 10
\* the Delivery Agent's Settings.BOUNCE_ALERT_THRESHOLD
BOUNCE_ALERT_THRESHOLD == 3
\* EventBusSettings.CB_FAILURE_THRESHOLD
CB_FAILURE_THRESHOLD == 5
\* EventBusSettings.CB_RESET_TIMEOUT_SECONDS
CB_RESET_TIMEOUT_SECONDS == 30

\* ------------------------------------------------------------- the domain
Deliveries == 1..NDeliveries
Callers == 1..NCallers
Exchanges == 1..NExchanges
Webhooks == 1..NWebhooks
Publishers == 1..NPublishers
Notifications == 1..NNotifications
Callbacks == 1..NCallbacks
WrappedCalls == 1..NWrappedCalls
Recipients == {"a@example.com", "b@example.com"}
TokenHashes == {"hash_1"}
Sessions == {"cs_1", "cs_2"}
Briefs == {"BRF-1"}

\* session["metadata"]["brief_id"]: cs_1 and cs_2 are two checkout sessions
\* of the same brief
BriefOf(s) == "BRF-1"

\* session["metadata"]["correlation_id"]: one per checkout session
CorrelationOf(s) == <<"corr", s>>

\* session["payment_intent"]
PaymentIntentOf(s) == <<"pi", s>>

\* charge["id"] of the charge that paid session s
ChargeOf(s) == <<"ch", s>>

OrderStatus ==
    {"pending", "awaiting_payment", "payment_processing", "payment_confirmed",
     "payment_failed", "queued", "in_production", "completed", "delivered",
     "cancelled", "refunded"}

\* ProductionOrder.generate_order_id: a digest of the brief id alone
generate_order_id(b) == <<"ORD", b>>

OrderIds == {generate_order_id(b) : b \in Briefs}

\* the order whose production has completed
CompletedOrder == generate_order_id("BRF-1")

\* the token hashes _generate_token returns to the production-completed
\* deliveries of one order: a fresh one each time
CompletionHashes == {"hash_1", "hash_2", "hash_3"}

VARIABLES
    pc,            \* pc[d]: where delivery d stands in its handler
    dsession,      \* dsession[d]: the session id delivery d carries
    result,        \* result[d]: what route() returned to delivery d
    sessionLock,   \* PaymentGateway._session_locks: locked or not, per session
    idemLock,      \* RedisIdempotencyAdapter._locks: locked or not, per key
    records,       \* RedisIdempotencyAdapter._records
    briefCache,    \* InMemoryBriefCache._cache (the brief ids cached)
    orders,        \* InMemoryOrderRepository._orders
    auditLog,      \* InMemoryAuditLog._logs
    busEvents,     \* InMemoryEventBus._events
    nRefunds,      \* charge.refunded webhooks handled so far
    nPublish,      \* on_payment_confirmed calls so far
    retry,         \* retry[d]: d entered after a failed attempt of its session,
                   \* with the brief cached and the session not yet completed
    cstate,        \* cstate[h]: where direct caller h of the idempotency store stands
    ckey,          \* ckey[h]: the key caller h is acquiring or holding
    cret,          \* what the last call of release returned ("none"
                   \* before the first call)
    cur,           \* the ProductionOrder snapshot transition_to is applied to
    before,        \* the snapshot transition_to was last called on
    heap,          \* the DeliveryToken objects ever built, by object identity
    tokStored,     \* InMemoryTokenRepository._tokens: token hash -> object (0: none)
    expired,       \* the token hashes whose expires_at lies in the past
    attempts,      \* InMemoryDownloadAuditLog._attempts
    epc,           \* epc[e]: where exchange call e stands
    ehash,         \* ehash[e]: the hash of the raw token call e presents
    etok,          \* etok[e]: the DeliveryToken object get_by_hash gave call e
    eupd,          \* eupd[e]: updated_token, the copy record_download made
    ereason,       \* ereason[e]: attempt.failure_reason
    eresult,       \* eresult[e]: the "success" field call e returned
    eafter,        \* eafter[e]: attempt.timestamp lies after the token's expires_at
    urls,          \* the signed storage URLs the URL generator has returned
    emails,        \* InMemoryNotificationRepository._records (delivery emails)
    byOrder,       \* InMemoryTokenRepository._by_order: order id -> token hashes
    wpc,           \* wpc[w]: where process_webhook call w and its task stand
    wevent,        \* wevent[w]: the WebhookEvent call w built
    dlqQueue,      \* InMemoryDeadLetterQueue._queue (the events enqueued)
    nRetry,        \* events retry_dlq_events has routed again so far
    wresult,       \* wresult[w]: what router.route returned to the task of w
    nrec,          \* the NotificationRecord objects saved, by notification
    mpc,           \* mpc[c]: where the handling of SendGrid event c stands
    mevent,        \* mevent[c]: the SendGridWebhookEvent c was parsed into
    mcount,        \* mcount[c]: len(recent_bounces) in _handle_delivery_failure
    alerts,        \* InMemoryAlertService._alerts
    connected,     \* InMemoryEventBus._connected, with the four integrations
                   \* subscribed (PipelineOrchestrator.start)
    busLock,       \* InMemoryEventBus._lock: the task holding it (0: free)
    published,     \* InMemoryEventBus._events of the pipeline's in-process bus
    bpc,           \* bpc[p]: where the innermost publish call of task p stands
    frames,        \* frames[p]: the publish calls of task p, outermost first
    handlers,      \* InMemoryEventBus._handlers: event type -> handlers, in
                   \* the order subscribed
    started,       \* the integrations whose start() has subscribed them
    calls,         \* the handler invocations made by publish, in order
    failure_threshold,  \* CircuitBreaker.failure_threshold
    reset_timeout,      \* CircuitBreaker.reset_timeout
    cb_state,           \* CircuitBreaker._state
    cb_failures,        \* CircuitBreaker._failures
    last_failure_time,  \* CircuitBreaker._last_failure_time (-1: None)
    now,                \* what datetime.utcnow() returns
    cbCall,             \* the method of the breaker called last
    cbPrev,             \* _state before the call made last
    streak,             \* record_failure calls since the last record_success
    cbAllowed,          \* what can_execute returned last
    trials,             \* callers can_execute admitted since _state became
                        \* half_open (0 in the other states)
    wcall,              \* wcall[c]: where call c through with_circuit_breaker
                        \* stands, or how it ended
    invocations         \* calls of the wrapped function so far

\* the idempotency store, shared by the gateway and by its direct callers
storeVars == <<idemLock, records>>

gwVars == <<pc, dsession, result, sessionLock, briefCache, orders, auditLog,
            busEvents, nRefunds, nPublish, retry>>

callerVars == <<cstate, ckey, cret>>

orderVars == <<cur, before>>

tokenVars == <<heap, tokStored, expired, attempts, epc, ehash, etok, eupd,
              ereason, eresult, eafter, urls, emails, byOrder>>

hookVars == <<wpc, wevent, dlqQueue, nRetry, wresult>>

mailVars == <<nrec, mpc, mevent, mcount, alerts>>

busVars == <<connected, busLock, published, bpc, frames, handlers, started,
            calls>>

cbVars == <<failure_threshold, reset_timeout, cb_state, cb_failures,
           last_failure_time, now, cbCall, cbPrev, streak, cbAllowed, trials,
           wcall, invocations>>

vars == <<storeVars, gwVars, callerVars, orderVars, tokenVars, hookVars,
          busVars, cbVars, mailVars>>

\* what the gateway's handlers never touch
NotGateway ==
    <<callerVars, orderVars, tokenVars, hookVars, busVars, cbVars, mailVars>>

\* what the direct callers of the idempotency store never touch
NotCallers ==
    <<gwVars, orderVars, tokenVars, hookVars, busVars, cbVars, mailVars>>

\* what transition_to never touches
NotOrder ==
    <<storeVars, gwVars, callerVars, tokenVars, hookVars, busVars, cbVars,
      mailVars>>

\* what the Delivery Agent never touches
NotTokens ==
    <<storeVars, gwVars, callerVars, orderVars, hookVars, busVars, cbVars,
      mailVars>>

\* what process_webhook and its background task never touch themselves (the
\* audit log they do write)
NotWebhook ==
    <<storeVars, pc, dsession, result, sessionLock, briefCache, orders,
      busEvents, nRefunds, nPublish, retry, callerVars, orderVars, tokenVars,
      busVars, cbVars, mailVars>>

\* what the in-process event bus and the integrations subscribed to it never
\* touch
NotBus ==
    <<storeVars, gwVars, callerVars, orderVars, tokenVars, hookVars, cbVars,
      mailVars>>

\* what the circuit breaker never touches
NotBreaker ==
    <<storeVars, gwVars, callerVars, orderVars, tokenVars, hookVars, busVars,
      mailVars>>

\* what the handling of SendGrid events never touches
NotMail ==
    <<storeVars, gwVars, callerVars, orderVars, tokenVars, hookVars, busVars,
      cbVars>>

\* ------------------------------------------------------------ the records
NoHolder == 0

\* no IdempotencyRecord stored under the key
NoRecord == [status |-> "absent", lock_holder |-> NoHolder, result |-> "none"]

\* no ProductionOrder stored under the order id
NoOrder == [status |-> "absent", previous_status |-> "none", version |-> 0,
            brief_id |-> "none", stripe_session_id |-> "none",
            stripe_payment_intent_id |-> <<>>, correlation_id |-> <<>>,
            amount_paid |-> 0]

\* the idempotency key of a session: f"stripe:session:{session_id}"
KeyOf(s) == s

\* brief.payment_tier of the cached brief
PaymentTierOf(b) == "starter"

\* PriceManager.get_tier_amount: the tier's amount in cents
get_tier_amount(tier) ==
    100 * (CASE tier = "starter" -> 2500
             [] tier = "professional" -> 5000
             [] tier = "enterprise" -> 15000
             [] OTHER -> 2500)

\* PriceManager.validate_amount: abs(amount_cents - expected) <= expected * 0.01
validate_amount(tier, amount_cents) ==
    LET expected == get_tier_amount(tier)
        diff == IF amount_cents >= expected THEN amount_cents - expected
                ELSE expected - amount_cents
    IN  100 * diff <= expected

\* session["amount_total"], in cents: cs_1 is paid at the tier's price, cs_2
\* at a price 4% above it
AmountOf(s) ==
    IF s = "cs_1" THEN get_tier_amount(PaymentTierOf(BriefOf(s)))
    ELSE get_tier_amount(PaymentTierOf(BriefOf(s))) +
         get_tier_amount(PaymentTierOf(BriefOf(s))) \div 25

\* where _process_checkout_locked goes after validate_amount has returned:
\* on to the order, a mismatch is logged only
AfterValidationBlocking(amount_ok) ==
    IF amount_ok THEN "save_confirmed" ELSE "release_except"

AfterValidation(amount_ok) == "save_confirmed"

\* ProductionOrder(...) as built by _process_checkout_locked
NewOrder(s) ==
    [status |-> "payment_confirmed", previous_status |-> "none", version |-> 1,
     brief_id |-> BriefOf(s), stripe_session_id |-> s,
     stripe_payment_intent_id |-> PaymentIntentOf(s),
     correlation_id |-> CorrelationOf(s),
     amount_paid |-> AmountOf(s) \div 100]

\* ProductionOrder.transition_to: a copy with the status replaced; the code
\* checks nothing about the requested status
transition_to_fresh(o, new_status) ==
    [o EXCEPT !.previous_status = "none",
              !.status = new_status,
              !.version = 1,
              !.correlation_id = <<>>]

transition_to(o, new_status) ==
    [o EXCEPT !.previous_status = o.status,
              !.status = new_status,
              !.version = o.version + 1]

\* InMemoryOrderRepository.save: the entity replaces whatever is stored
\* under its order id
save(store, oid, entity) == [store EXCEPT ![oid] = entity]

\* AuditLogEntry as built by _emit_audit
AuditEntry(corr, type, entity) ==
    [correlation_id |-> corr, event_type |-> type, entity_id |-> entity]

\* InMemoryAuditLog.get_by_correlation_id
get_by_correlation_id(log, corr) ==
    SelectSeq(log, LAMBDA e : e.correlation_id = corr)

\* ------------------------------------------------- the idempotency store
\* try_acquire, the check of the existing record once the key's lock is
\* taken: a completed record, or a processing record of another holder,
\* refuses the caller
RecordRefusesOnlyProcessing(rec, holder) ==
    rec.status = "processing" /\ rec.lock_holder # holder

RecordNeverRefuses(rec, holder) == FALSE

RecordRefuses(rec, holder) ==
    \/ rec.status = "completed"
    \/ rec.status = "processing" /\ rec.lock_holder # holder

\* try_acquire returns True: the key's lock is free and the record does not
\* refuse the caller
CanAcquireUnguarded(locks, recs, key, holder) == recs[key].status # "completed"

CanAcquire(locks, recs, key, holder) ==
    /\ ~locks[key]
    /\ ~RecordRefuses(recs[key], holder)

\* is_completed
is_completed(recs, key) == recs[key].status = "completed"

\* release: only the recorded lock holder releases; the record is kept, with
\* its lock holder cleared
ReleaseOkAnyHolder(recs, key, holder) == recs[key].status # "absent"

ReleaseOk(recs, key, holder) ==
    recs[key].status # "absent" /\ recs[key].lock_holder = holder

ReleasedRecords(recs, key, holder) ==
    IF ReleaseOk(recs, key, holder)
    THEN [recs EXCEPT ![key].lock_holder = NoHolder]
    ELSE recs

ReleasedLocks(locks, recs, key, holder) ==
    IF ReleaseOk(recs, key, holder)
    THEN [locks EXCEPT ![key] = FALSE]
    ELSE locks

\* mark_completed: the record, if any, becomes completed and the key's lock
\* is released
MarkedRecords(recs, key, res) ==
    IF recs[key].status # "absent"
    THEN [recs EXCEPT ![key].status = "completed", ![key].result = res]
    ELSE recs

MarkedLocks(locks, recs, key) ==
    IF recs[key].status # "absent"
    THEN [locks EXCEPT ![key] = FALSE]
    ELSE locks

\* ------------------------------------------------------------------ Init
\* the idempotency store as constructed
StoreInit ==
    /\ idemLock = [s \in Sessions |-> FALSE]
    /\ records = [s \in Sessions |-> NoRecord]

\* PaymentGateway() as constructed, no delivery arrived yet
GatewayInit ==
    /\ pc = [d \in Deliveries |-> "idle"]
    /\ dsession = [d \in Deliveries |-> "none"]
    /\ result = [d \in Deliveries |-> "none"]
    /\ sessionLock = [s \in Sessions |-> FALSE]
    /\ briefCache = {}
    /\ orders = [o \in OrderIds |-> NoOrder]
    /\ auditLog = <<>>
    /\ busEvents = <<>>
    /\ nRefunds = 0
    /\ nPublish = 0
    /\ retry = [d \in Deliveries |-> FALSE]

\* no direct caller of the idempotency store has called yet
CallersInit ==
    /\ cstate = [h \in Callers |-> "idle"]
    /\ ckey = [h \in Callers |-> "none"]
    /\ cret = "none"

\* no snapshot under transition
OrderIdle ==
    /\ cur = NoOrder
    /\ before = NoOrder

\* DeliveryAgent() as constructed: no token, no attempt, no call
TokensInit ==
    /\ heap = <<>>
    /\ tokStored = [t \in TokenHashes |-> 0]
    /\ expired = {}
    /\ attempts = <<>>
    /\ epc = [e \in Exchanges |-> "idle"]
    /\ ehash = [e \in Exchanges |-> "none"]
    /\ etok = [e \in Exchanges |-> 0]
    /\ eupd = [e \in Exchanges |-> [download_count |-> 0, status |-> "none",
                                   max_downloads |-> 0]]
    /\ ereason = [e \in Exchanges |-> "none"]
    /\ eresult = [e \in Exchanges |-> "none"]
    /\ eafter = [e \in Exchanges |-> FALSE]
    /\ urls = {}
    /\ emails = {}
    /\ byOrder = [o \in OrderIds |-> <<>>]

\* no webhook received, the dead-letter queue empty
NoEvent == [status |-> "none", attempt_count |-> 0, max_attempts |-> 0,
            signed |-> TRUE, event_type |-> "none"]

HooksInit ==
    /\ wpc = [w \in Webhooks |-> "idle"]
    /\ wevent = [w \in Webhooks |-> NoEvent]
    /\ dlqQueue = {}
    /\ nRetry = 0
    /\ wresult = [w \in Webhooks |-> "unset"]

\* no notification saved, no SendGrid event received, no alert sent
NoNotification == [status |-> "none", recipient_email |-> "none", bounced_at |-> "none"]

NoMailEvent == [event_type |-> "none", sg_message_id |-> 0, email |-> "none"]

MailInit ==
    /\ nrec = [n \in Notifications |-> NoNotification]
    /\ mpc = [c \in Callbacks |-> "idle"]
    /\ mevent = [c \in Callbacks |-> NoMailEvent]
    /\ mcount = [c \in Callbacks |-> 0]
    /\ alerts = <<>>

\* ------------------------------------------------ the bus: its domain
\* the event types published from outside a handler: by
\* simulate_website_conversion, and by on_payment_confirmed (two of them)
EntryTypes == {"conversation.cards_complete", "payment.confirmed", "order.queued"}

\* the event types followed on the bus
EventTypes ==
    EntryTypes \cup {"brief.assembled", "payment.session_created",
                     "production.started"}

\* the four integrations PipelineOrchestrator wires to the bus, in the order
\* it starts them
Integrations == <<"brief_assembler", "payment_gateway", "delivery_agent", "ragnarok">>

Handlers == {Integrations[i] : i \in 1..Len(Integrations)}

\* the integrations PipelineOrchestrator starts, and stops, before h
Before(h) ==
    {Integrations[i] : i \in {j \in 1..Len(Integrations) :
        \E k \in 1..Len(Integrations) : j < k /\ Integrations[k] = h}}

\* the event types an integration's start() subscribes its handler to
SubscribesTo(h) ==
    CASE h = "brief_assembler" -> {"conversation.cards_complete"}
      [] h = "payment_gateway" -> {"brief.assembled"}
      [] h = "delivery_agent" -> {"payment.session_created", "payment.confirmed",
                                  "order.queued", "production.started"}
      [] h = "ragnarok" -> {"order.queued"}

\* PipelineOrchestrator(event_bus=InMemoryEventBus()) as constructed: not
\* connected, nothing subscribed, nothing published
BusInit ==
    /\ connected = FALSE
    /\ busLock = 0
    /\ published = <<>>
    /\ bpc = [p \in Publishers |-> "idle"]
    /\ frames = [p \in Publishers |-> <<>>]
    /\ handlers = [t \in EventTypes |-> <<>>]
    /\ started = {}
    /\ calls = <<>>

\* CircuitBreaker.__init__(name, failure_threshold, reset_timeout)
BreakerInit(threshold, timeout) ==
    /\ failure_threshold = threshold
    /\ reset_timeout = timeout
    /\ cb_state = "closed"
    /\ cb_failures = 0
    /\ last_failure_time = -1
    /\ now = 0
    /\ cbCall = "none"
    /\ cbPrev = "closed"
    /\ streak = 0
    /\ cbAllowed = FALSE
    /\ trials = 0
    /\ wcall = [c \in WrappedCalls |-> "idle"]
    /\ invocations = 0

\* CircuitBreaker("rabbitmq"): the defaults of the settings
BreakerDefault == BreakerInit(CB_FAILURE_THRESHOLD, CB_RESET_TIMEOUT_SECONDS)

Init ==
    /\ StoreInit /\ GatewayInit /\ CallersInit /\ OrderIdle /\ TokensInit
    /\ HooksInit /\ MailInit /\ BusInit /\ BreakerDefault

\* --------------------------------------------- checkout.session.completed
\* the handler returns (or raises) and `async with session_lock` exits
Return(d, r) ==
    /\ pc' = [pc EXCEPT ![d] = "done"]
    /\ result' = [result EXCEPT ![d] = r]
    /\ sessionLock' = [sessionLock EXCEPT ![dsession[d]] = FALSE]

\* session_lock.locked()
SessionLockNeverHeld(locks, s) == FALSE

SessionLockHeld(locks, s) == locks[s]

\* some attempt of session s has failed, the brief is cached by now and the
\* key of s is not completed: the next attempt is the legitimate retry
IsRetry(s) ==
    /\ \E e \in Deliveries : dsession[e] = s /\ result[e] = "error"
    /\ BriefOf(s) \in briefCache
    /\ ~is_completed(records, KeyOf(s))

\* _on_checkout_completed: a delivery for session s arrives; a locked
\* session lock answers already_processing, a free one is taken.
\* Deliveries are interchangeable, so they arrive in the order of their ids.
OnCheckoutCompleted(d, s) ==
    /\ pc[d] = "idle"
    /\ \A e \in Deliveries : e < d => pc[e] # "idle"
    /\ dsession' = [dsession EXCEPT ![d] = s]
    /\ IF SessionLockHeld(sessionLock, s)
       THEN /\ pc' = [pc EXCEPT ![d] = "done"]
            /\ result' = [result EXCEPT ![d] = "already_processing"]
            /\ UNCHANGED <<sessionLock, retry>>
       ELSE /\ pc' = [pc EXCEPT ![d] = "try_acquire"]
            /\ sessionLock' = [sessionLock EXCEPT ![s] = TRUE]
            /\ retry' = [retry EXCEPT ![d] = IsRetry(s)]
            /\ UNCHANGED result
    /\ UNCHANGED <<idemLock, records, briefCache, orders, auditLog, busEvents,
                   nRefunds, nPublish>>
    /\ UNCHANGED NotGateway

\* try_acquire up to its wait: a locked key lock returns False at once
TryAcquireCheck(d) ==
    /\ pc[d] = "try_acquire"
    /\ pc' = [pc EXCEPT ![d] =
                IF idemLock[KeyOf(dsession[d])] THEN "not_acquired" ELSE "acquire_wait"]
    /\ UNCHANGED <<dsession, result, sessionLock, idemLock, records, briefCache,
                   orders, auditLog, busEvents, nRefunds, nPublish>>
    /\ UNCHANGED <<retry, NotGateway>>

\* try_acquire from wait_for(lock.acquire(), 0.1) on: the lock is taken when
\* free and the record decides; a lock that stays held times the wait out
TryAcquireFinish(d) ==
    /\ pc[d] = "acquire_wait"
    /\ LET k == KeyOf(dsession[d]) IN
       IF CanAcquire(idemLock, records, k, d)
       THEN /\ idemLock' = [idemLock EXCEPT ![k] = TRUE]
            /\ records' = [records EXCEPT ![k] =
                  [status |-> "processing", lock_holder |-> d, result |-> "none"]]
            /\ pc' = [pc EXCEPT ![d] = "get_brief"]
       ELSE /\ pc' = [pc EXCEPT ![d] = "not_acquired"]
            /\ UNCHANGED <<idemLock, records>>
    /\ UNCHANGED <<dsession, result, sessionLock, briefCache, orders, auditLog,
                   busEvents, nRefunds, nPublish>>
    /\ UNCHANGED <<retry, NotGateway>>

\* not acquired: is_completed decides between already_processed and
\* processing_elsewhere
NotAcquired(d) ==
    /\ pc[d] = "not_acquired"
    /\ Return(d, IF is_completed(records, KeyOf(dsession[d]))
                 THEN "already_processed" ELSE "processing_elsewhere")
    /\ UNCHANGED <<dsession, idemLock, records, briefCache, orders, auditLog,
                   busEvents, nRefunds, nPublish>>
    /\ UNCHANGED <<retry, NotGateway>>

\* InMemoryBriefCache.get returns the brief (not None)
BriefCachedAlways(cache, b) == TRUE

BriefCached(cache, b) == b \in cache

\* briefs.get: a missing brief aborts the attempt; with the brief, the amount
\* paid is validated against the price of the brief's tier
GetBrief(d) ==
    /\ pc[d] = "get_brief"
    /\ pc' = [pc EXCEPT ![d] =
                IF BriefCached(briefCache, BriefOf(dsession[d]))
                THEN AfterValidation(
                        validate_amount(PaymentTierOf(BriefOf(dsession[d])),
                                        AmountOf(dsession[d])))
                ELSE "release_missing"]
    /\ UNCHANGED <<dsession, result, sessionLock, idemLock, records, briefCache,
                   orders, auditLog, busEvents, nRefunds, nPublish>>
    /\ UNCHANGED <<retry, NotGateway>>

\* the release before `raise ValueError("Brief not found")`
ReleaseMissingBrief(d) ==
    /\ pc[d] = "release_missing"
    /\ LET k == KeyOf(dsession[d]) IN
       /\ records' = ReleasedRecords(records, k, d)
       /\ idemLock' = ReleasedLocks(idemLock, records, k, d)
    /\ pc' = [pc EXCEPT ![d] = "release_except"]
    /\ UNCHANGED <<dsession, result, sessionLock, briefCache, orders, auditLog,
                   busEvents, nRefunds, nPublish>>
    /\ UNCHANGED <<retry, NotGateway>>

\* the release of `except Exception`, then the exception leaves the handler
ReleaseOnException(d) ==
    /\ pc[d] = "release_except"
    /\ LET k == KeyOf(dsession[d]) IN
       /\ records' = ReleasedRecords(records, k, d)
       /\ idemLock' = ReleasedLocks(idemLock, records, k, d)
    /\ Return(d, "error")
    /\ UNCHANGED <<dsession, briefCache, orders, auditLog, busEvents, nRefunds,
                   nPublish>>
    /\ UNCHANGED <<retry, NotGateway>>

\* orders.save(order) of the order built in payment_confirmed
SaveConfirmed(d) ==
    /\ pc[d] = "save_confirmed"
    /\ LET o == NewOrder(dsession[d]) IN
       orders' = save(orders, generate_order_id(o.brief_id), o)
    /\ pc' = [pc EXCEPT ![d] = "audit_confirmed"]
    /\ UNCHANGED <<dsession, result, sessionLock, idemLock, records, briefCache,
                   auditLog, busEvents, nRefunds, nPublish>>
    /\ UNCHANGED <<retry, NotGateway>>

\* _emit_audit(PAYMENT_CONFIRMED)
AuditConfirmed(d) ==
    /\ pc[d] = "audit_confirmed"
    /\ auditLog' = Append(auditLog,
          AuditEntry(CorrelationOf(dsession[d]), "payment.confirmed",
                     generate_order_id(BriefOf(dsession[d]))))
    /\ pc' = [pc EXCEPT ![d] = "save_queued"]
    /\ UNCHANGED <<dsession, result, sessionLock, idemLock, records, briefCache,
                   orders, busEvents, nRefunds, nPublish>>
    /\ UNCHANGED <<retry, NotGateway>>

\* order = order.transition_to(QUEUED); orders.save(order)
SaveQueued(d) ==
    /\ pc[d] = "save_queued"
    /\ LET o == transition_to(NewOrder(dsession[d]), "queued") IN
       orders' = save(orders, generate_order_id(o.brief_id), o)
    /\ pc' = [pc EXCEPT ![d] = "audit_created"]
    /\ UNCHANGED <<dsession, result, sessionLock, idemLock, records, briefCache,
                   auditLog, busEvents, nRefunds, nPublish>>
    /\ UNCHANGED <<retry, NotGateway>>

\* _emit_audit(ORDER_CREATED)
AuditCreated(d) ==
    /\ pc[d] = "audit_created"
    /\ auditLog' = Append(auditLog,
          AuditEntry(CorrelationOf(dsession[d]), "order.created",
                     generate_order_id(BriefOf(dsession[d]))))
    /\ pc' = [pc EXCEPT ![d] = "mark_completed"]
    /\ UNCHANGED <<dsession, result, sessionLock, idemLock, records, briefCache,
                   orders, busEvents, nRefunds, nPublish>>
    /\ UNCHANGED <<retry, NotGateway>>

\* idempotency.mark_completed, then return {"status": "success"}
MarkCompleted(d) ==
    /\ pc[d] = "mark_completed"
    /\ LET k == KeyOf(dsession[d]) IN
       /\ records' = MarkedRecords(records, k, generate_order_id(BriefOf(dsession[d])))
       /\ idemLock' = MarkedLocks(idemLock, records, k)
    /\ Return(d, "success")
    /\ UNCHANGED <<dsession, briefCache, orders, auditLog, busEvents, nRefunds,
                   nPublish>>
    /\ UNCHANGED <<retry, NotGateway>>

\* ---------------------------------------------------- the other handlers
\* create_checkout caches the brief for the webhook handler (briefs.set)
CacheBrief(b) ==
    /\ b \notin briefCache
    /\ briefCache' = briefCache \cup {b}
    /\ UNCHANGED <<pc, dsession, result, sessionLock, idemLock, records, orders,
                   auditLog, busEvents, nRefunds, nPublish>>
    /\ UNCHANGED <<retry, NotGateway>>

\* BaseEvent as published: its type, correlation id and the brief it is about
BusEvent(type, corr, b) == [event_type |-> type, correlation_id |-> corr, brief_id |-> b]

\* PaymentGatewayIntegration.on_payment_confirmed: publishes
\* payment.confirmed, then order.queued (one step: nothing here reads the
\* bus in between); nothing in the webhook path calls it
on_payment_confirmed(s) ==
    /\ nPublish < MaxPublish
    /\ nPublish' = nPublish + 1
    /\ busEvents' = busEvents \o
          << BusEvent("payment.confirmed", CorrelationOf(s), BriefOf(s)),
             BusEvent("order.queued", CorrelationOf(s), BriefOf(s)) >>
    /\ UNCHANGED <<pc, dsession, result, sessionLock, idemLock, records,
                   briefCache, orders, auditLog, nRefunds>>
    /\ UNCHANGED <<retry, NotGateway>>

Next ==
    \/ \E d \in Deliveries, s \in Sessions : OnCheckoutCompleted(d, s)
    \/ \E d \in Deliveries : TryAcquireCheck(d)
    \/ \E d \in Deliveries : TryAcquireFinish(d)
    \/ \E d \in Deliveries : NotAcquired(d)
    \/ \E d \in Deliveries : GetBrief(d)
    \/ \E d \in Deliveries : ReleaseMissingBrief(d)
    \/ \E d \in Deliveries : ReleaseOnException(d)
    \/ \E d \in Deliveries : SaveConfirmed(d)
    \/ \E d \in Deliveries : AuditConfirmed(d)
    \/ \E d \in Deliveries : SaveQueued(d)
    \/ \E d \in Deliveries : AuditCreated(d)
    \/ \E d \in Deliveries : MarkCompleted(d)
    \/ \E b \in Briefs : CacheBrief(b)
    \/ \E s \in Sessions : on_payment_confirmed(s)

Spec == Init /\ [][Next]_vars

\* ------------------------------------------------ the gateway with refunds
\* _on_refund: charge.refunded for the charge that paid session s; the
\* handler looks no order up and writes the audit entry only
OnRefund(s) ==
    /\ nRefunds < MaxRefunds
    /\ nRefunds' = nRefunds + 1
    /\ auditLog' = Append(auditLog,
          AuditEntry(CorrelationOf(s), "payment.refunded", ChargeOf(s)))
    /\ UNCHANGED <<pc, dsession, result, sessionLock, idemLock, records,
                   briefCache, orders, busEvents, nPublish>>
    /\ UNCHANGED <<retry, NotGateway>>

NextRefund ==
    \/ Next
    \/ \E s \in Sessions : OnRefund(s)

SpecRefund == Init /\ [][NextRefund]_vars

\* ---------------------------------- the gateway with expired sessions
\* the audit entry _on_session_expired writes for session s
SessionExpiredAuditAsCancelled(s) == AuditEntry(CorrelationOf(s), "order.cancelled", s)

SessionExpiredAudit(s) == AuditEntry(CorrelationOf(s), "session.expired", s)

\* _on_session_expired: checkout.session.expired for session s, which Stripe
\* sends for a session that was never completed; the handler reads the brief
\* id off the event, writes the audit entry and returns
OnSessionExpired(s) ==
    /\ \A d \in Deliveries : dsession[d] # s
    /\ Len(SelectSeq(auditLog,
              LAMBDA e : \E x \in Sessions : e = SessionExpiredAudit(x))) < MaxExpired
    /\ auditLog' = Append(auditLog, SessionExpiredAudit(s))
    /\ UNCHANGED <<pc, dsession, result, sessionLock, idemLock, records,
                   briefCache, orders, busEvents, nRefunds, nPublish>>
    /\ UNCHANGED <<retry, NotGateway>>

NextExpired ==
    \/ Next
    \/ \E s \in Sessions : OnSessionExpired(s)

SpecExpired == Init /\ [][NextExpired]_vars

\* ------------------------------------------ the gateway with lock timeouts
\* asyncio.timeout(LOCK_TIMEOUT_SECONDS) expires while delivery d is inside
\* `async with session_lock`: the task is cancelled at the await it stands
\* at.  CancelledError is not an Exception, so `except Exception` does not run
\* and nothing is released but the session lock, which `async with` frees;
\* asyncio.timeout turns the cancellation into TimeoutError, which is re-raised
LockTimeout(d) ==
    /\ pc[d] \notin {"idle", "done"}
    /\ Return(d, "lock_timeout")
    /\ UNCHANGED <<dsession, idemLock, records, briefCache, orders, auditLog,
                   busEvents, nRefunds, nPublish>>
    /\ UNCHANGED <<retry, NotGateway>>

NextTimeout ==
    \/ Next
    \/ \E d \in Deliveries : LockTimeout(d)

SpecTimeout == Init /\ [][NextTimeout]_vars

\* ------------------------------ the idempotency store, called directly
\* try_acquire(key, holder) up to its wait: a locked key lock returns False
\* at once, a free one leads to wait_for(lock.acquire(), 0.1)
CallTryAcquire(h, k) ==
    /\ cstate[h] = "idle"
    /\ IF idemLock[k]
       THEN UNCHANGED <<cstate, ckey>>
       ELSE /\ cstate' = [cstate EXCEPT ![h] = "acquire_wait"]
            /\ ckey' = [ckey EXCEPT ![h] = k]
    /\ UNCHANGED <<storeVars, cret>>
    /\ UNCHANGED NotCallers

\* try_acquire from the wait on: True with the lock taken and the record
\* written, or False (record refuses, or the wait timed out)
FinishTryAcquire(h) ==
    /\ cstate[h] = "acquire_wait"
    /\ IF CanAcquire(idemLock, records, ckey[h], h)
       THEN /\ idemLock' = [idemLock EXCEPT ![ckey[h]] = TRUE]
            /\ records' = [records EXCEPT ![ckey[h]] =
                  [status |-> "processing", lock_holder |-> h, result |-> "none"]]
            /\ cstate' = [cstate EXCEPT ![h] = "holding"]
            /\ UNCHANGED ckey
       ELSE /\ cstate' = [cstate EXCEPT ![h] = "idle"]
            /\ ckey' = [ckey EXCEPT ![h] = "none"]
            /\ UNCHANGED storeVars
    /\ UNCHANGED cret
    /\ UNCHANGED NotCallers

\* release(key, holder) by any caller not inside try_acquire, holder or not
CallRelease(h, k) ==
    /\ cstate[h] \in {"idle", "holding"}
    /\ cret' = IF ReleaseOk(records, k, h) THEN "True" ELSE "False"
    /\ records' = ReleasedRecords(records, k, h)
    /\ idemLock' = ReleasedLocks(idemLock, records, k, h)
    /\ IF cstate[h] = "holding" /\ ckey[h] = k
       THEN /\ cstate' = [cstate EXCEPT ![h] = "idle"]
            /\ ckey' = [ckey EXCEPT ![h] = "none"]
       ELSE UNCHANGED <<cstate, ckey>>
    /\ UNCHANGED NotCallers

\* mark_completed(key) by any caller not inside try_acquire: the call names
\* no holder
CallMarkCompleted(h, k) ==
    /\ cstate[h] \in {"idle", "holding"}
    /\ records' = MarkedRecords(records, k, "success")
    /\ idemLock' = MarkedLocks(idemLock, records, k)
    /\ IF cstate[h] = "holding" /\ ckey[h] = k
       THEN /\ cstate' = [cstate EXCEPT ![h] = "idle"]
            /\ ckey' = [ckey EXCEPT ![h] = "none"]
       ELSE UNCHANGED <<cstate, ckey>>
    /\ UNCHANGED cret
    /\ UNCHANGED NotCallers

NextIdem ==
    \/ \E h \in Callers, k \in Sessions : CallTryAcquire(h, KeyOf(k))
    \/ \E h \in Callers : FinishTryAcquire(h)
    \/ \E h \in Callers, k \in Sessions : CallRelease(h, KeyOf(k))
    \/ \E h \in Callers, k \in Sessions : CallMarkCompleted(h, KeyOf(k))

SpecIdem == Init /\ [][NextIdem]_vars

\* ------------------------------------------ transition_to, a pure function
\* any ProductionOrder as constructed: any status, version 1
InitOrder ==
    /\ StoreInit /\ GatewayInit /\ CallersInit /\ TokensInit /\ HooksInit
    /\ MailInit /\ BusInit /\ BreakerDefault
    /\ \E st \in OrderStatus, s \in Sessions :
          cur = [NewOrder(s) EXCEPT !.status = st]
    /\ before = NoOrder

\* order = order.transition_to(new_status)
Transition(new_status) ==
    /\ cur.version < MaxVersion
    /\ before' = cur
    /\ cur' = transition_to(cur, new_status)
    /\ UNCHANGED NotOrder

NextOrder == \E t \in OrderStatus : Transition(t)

SpecOrder == InitOrder /\ [][NextOrder]_vars

\* ------------------------------------------- the Delivery Agent's tokens
\* DeliveryToken(...): active, nothing downloaded
NewToken(k) == [download_count |-> 0, status |-> "active", max_downloads |-> k]

\* DeliveryToken.is_valid, read at a moment when the token's expiry has
\* (is_expired) or has not passed
is_valid_expiry_only(tok, is_expired) == ~is_expired

is_valid(tok, is_expired) ==
    /\ tok.status = "active"
    /\ ~is_expired
    /\ ~(tok.download_count >= tok.max_downloads)

\* DeliveryToken.record_download: a copy with one more download, exhausted
\* once the count reaches max_downloads
record_download(tok) ==
    [tok EXCEPT !.download_count = tok.download_count + 1,
                !.status = IF tok.download_count + 1 >= tok.max_downloads
                           THEN "exhausted" ELSE tok.status]

\* attempt.failure_reason of an exchange whose token is not valid
FailureReasonStatusFirst(tok, is_expired) ==
    IF tok.status = "revoked" THEN "token_revoked"
    ELSE IF tok.download_count >= tok.max_downloads THEN "downloads_exhausted"
    ELSE IF tok.status = "expired" \/ is_expired THEN "token_expired"
    ELSE "token_invalid"

FailureReason(tok, is_expired) ==
    IF tok.status = "expired" \/ is_expired THEN "token_expired"
    ELSE IF tok.status = "revoked" THEN "token_revoked"
    ELSE IF tok.download_count >= tok.max_downloads THEN "downloads_exhausted"
    ELSE "token_invalid"

\* DownloadAttempt as logged: the token it names, its result, and whether
\* its timestamp lies after the token's expires_at
Attempt(h, ok, reason, late, ip, agent) ==
    [token |-> h, success |-> ok, failure_reason |-> reason, after_expiry |-> late,
     ip_address |-> ip, user_agent |-> agent]

\* the ip_address and the user_agent exchange call e is made with: the
\* calls come from two requesters in turn
IpOf(e) == <<"ip", e % 2>>

UserAgentOf(e) == <<"ua", e % 2>>

\* the ip_address the DownloadAttempt of call e is built with
AttemptIpOfOther(e) == <<"ip", (e + 1) % 2>>

AttemptIp(e) == IpOf(e)

\* the raw token _generate_token returns with the hash h
RawOf(h) == <<"raw", h>>

\* portal_download_url = f"{settings.PORTAL_URL}/download?token={raw_token}"
PortalUrl(h) == [kind |-> "portal", of |-> RawOf(h)]

\* what url_generator.generate_download_url returns for the token's video_key
StorageUrl(h) == [kind |-> "storage", of |-> <<"video", h>>]

\* the download_url the delivery email carries
DeliveryEmailStorageUrl(h) == StorageUrl(h)

DeliveryEmailUrl(h) == PortalUrl(h)

\* on_production_completed up to tokens.save: a DeliveryToken with
\* max_downloads = k is built and saved
CreateToken(h, k) ==
    /\ tokStored[h] = 0
    /\ heap' = Append(heap, NewToken(k))
    /\ tokStored' = [tokStored EXCEPT ![h] = Len(heap) + 1]
    /\ byOrder' = [byOrder EXCEPT ![CompletedOrder] = Append(@, h)]
    /\ UNCHANGED <<expired, attempts, epc, ehash, etok, eupd, ereason, eresult>>
    /\ UNCHANGED <<eafter, urls, emails>>
    /\ UNCHANGED NotTokens

\* on_production_completed from tokens.save on: _send_notification saves the
\* DELIVERY_FINAL notification with its template data
SendDeliveryEmail(h) ==
    /\ tokStored[h] # 0
    /\ \A m \in emails : m.token # h
    /\ emails' = emails \cup
          {[notification_type |-> "delivery_final", token |-> h,
            download_url |-> DeliveryEmailUrl(h)]}
    /\ UNCHANGED <<heap, tokStored, expired, attempts, epc, ehash, etok, eupd,
                   ereason, eresult, eafter, urls>>
    /\ UNCHANGED <<byOrder, NotTokens>>

\* time passes beyond the token's expires_at
Expire(h) ==
    /\ tokStored[h] # 0
    /\ h \notin expired
    /\ expired' = expired \cup {h}
    /\ UNCHANGED <<heap, tokStored, attempts, epc, ehash, etok, eupd, ereason, eresult>>
    /\ UNCHANGED <<eafter, urls, emails>>
    /\ UNCHANGED <<byOrder, NotTokens>>

\* revoke_token -> tokens.revoke: the stored object's status is set in place
RevokeToken(h) ==
    /\ tokStored[h] # 0
    /\ heap' = [heap EXCEPT ![tokStored[h]].status = "revoked"]
    /\ UNCHANGED <<tokStored, expired, attempts, epc, ehash, etok, eupd, ereason, eresult>>
    /\ UNCHANGED <<eafter, urls, emails>>
    /\ UNCHANGED <<byOrder, NotTokens>>

\* exchange_token_for_download up to its await of tokens.get_by_hash, which
\* hands the call the stored object (or None). The raw token of a stored
\* hash is known from the delivery email only. Calls are interchangeable, so
\* they start in the order of their ids.
ExchangeLookup(e, h) ==
    /\ epc[e] = "idle"
    /\ \A f \in Exchanges : f < e => epc[f] # "idle"
    /\ tokStored[h] = 0 \/ \E m \in emails : m.token = h
    /\ ehash' = [ehash EXCEPT ![e] = h]
    /\ etok' = [etok EXCEPT ![e] = tokStored[h]]
    /\ epc' = [epc EXCEPT ![e] = "validate"]
    /\ UNCHANGED <<heap, tokStored, expired, attempts, eupd, ereason, eresult>>
    /\ UNCHANGED <<eafter, urls, emails>>
    /\ UNCHANGED <<byOrder, NotTokens>>

\* the DownloadAttempt is built (its timestamp taken), then the validation
\* of what get_by_hash returned: no token, a token that is not valid (with
\* its reason), or on to the URL generator
Validate(e) ==
    /\ epc[e] = "validate"
    /\ eafter' = [eafter EXCEPT ![e] = etok[e] # 0 /\ ehash[e] \in expired]
    /\ IF etok[e] = 0
       THEN /\ epc' = [epc EXCEPT ![e] = "log_failure"]
            /\ ereason' = [ereason EXCEPT ![e] = "token_not_found"]
       ELSE IF is_valid(heap[etok[e]], ehash[e] \in expired)
       THEN /\ epc' = [epc EXCEPT ![e] = "generate_url"]
            /\ UNCHANGED ereason
       ELSE /\ epc' = [epc EXCEPT ![e] = "log_failure"]
            /\ ereason' = [ereason EXCEPT ![e] =
                              FailureReason(heap[etok[e]], ehash[e] \in expired)]
    /\ UNCHANGED <<heap, tokStored, expired, attempts, ehash, etok, eupd, eresult>>
    /\ UNCHANGED <<urls, emails>>
    /\ UNCHANGED <<byOrder, NotTokens>>

\* url_generator.generate_download_url returns the signed URL;
\* record_download copies the token object the call holds
GenerateUrl(e) ==
    /\ epc[e] = "generate_url"
    /\ urls' = urls \cup {[by |-> e, url |-> StorageUrl(ehash[e])]}
    /\ eupd' = [eupd EXCEPT ![e] = record_download(heap[etok[e]])]
    /\ epc' = [epc EXCEPT ![e] = "update"]
    /\ UNCHANGED <<heap, tokStored, expired, attempts, ehash, etok, ereason, eresult>>
    /\ UNCHANGED <<eafter, emails>>
    /\ UNCHANGED <<byOrder, NotTokens>>

\* url_generator.generate_download_url raises
GenerateUrlFailsAfterRecording(e) ==
    /\ epc[e] = "generate_url"
    /\ ereason' = [ereason EXCEPT ![e] = "url_generation_failed"]
    /\ epc' = [epc EXCEPT ![e] = "log_failure"]
    /\ heap' = Append(heap, record_download(heap[etok[e]]))
    /\ tokStored' = [tokStored EXCEPT ![ehash[e]] = Len(heap) + 1]
    /\ UNCHANGED <<expired, attempts, ehash, etok, eupd, eresult>>
    /\ UNCHANGED <<eafter, urls, emails>>
    /\ UNCHANGED <<byOrder, NotTokens>>

GenerateUrlFails(e) ==
    /\ epc[e] = "generate_url"
    /\ ereason' = [ereason EXCEPT ![e] = "url_generation_failed"]
    /\ epc' = [epc EXCEPT ![e] = "log_failure"]
    /\ UNCHANGED <<heap, tokStored, expired, attempts, ehash, etok, eupd, eresult>>
    /\ UNCHANGED <<eafter, urls, emails>>
    /\ UNCHANGED <<byOrder, NotTokens>>

\* tokens.update(updated_token): the copy replaces the stored object
UpdateToken(e) ==
    /\ epc[e] = "update"
    /\ heap' = Append(heap, eupd[e])
    /\ tokStored' = [tokStored EXCEPT ![ehash[e]] = Len(heap) + 1]
    /\ epc' = [epc EXCEPT ![e] = "log_success"]
    /\ UNCHANGED <<expired, attempts, ehash, etok, eupd, ereason, eresult>>
    /\ UNCHANGED <<eafter, urls, emails>>
    /\ UNCHANGED <<byOrder, NotTokens>>

\* the call returns: its locals (token, updated_token, attempt) are gone
NoToken == [download_count |-> 0, status |-> "none", max_downloads |-> 0]

ExchangeReturns(e, r) ==
    /\ eresult' = [eresult EXCEPT ![e] = r]
    /\ epc' = [epc EXCEPT ![e] = "done"]
    /\ etok' = [etok EXCEPT ![e] = 0]
    /\ eupd' = [eupd EXCEPT ![e] = NoToken]
    /\ ereason' = [ereason EXCEPT ![e] = "none"]
    /\ eafter' = [eafter EXCEPT ![e] = FALSE]

\* audit.log_attempt of the successful attempt, then the success result
LogSuccess(e) ==
    /\ epc[e] = "log_success"
    /\ attempts' = Append(attempts, Attempt(ehash[e], TRUE, "none", eafter[e], AttemptIp(e), UserAgentOf(e)))
    /\ ExchangeReturns(e, "success")
    /\ UNCHANGED <<heap, tokStored, expired, ehash, urls, emails>>
    /\ UNCHANGED <<byOrder, NotTokens>>

\* audit.log_attempt of a failed attempt, then the failure result
LogFailure(e) ==
    /\ epc[e] = "log_failure"
    /\ attempts' = Append(attempts,
          Attempt(ehash[e], FALSE, ereason[e], eafter[e], AttemptIp(e),
                  UserAgentOf(e)))
    /\ ExchangeReturns(e, "failure")
    /\ UNCHANGED <<heap, tokStored, expired, ehash, urls, emails>>
    /\ UNCHANGED <<byOrder, NotTokens>>

NextToken ==
    \/ \E h \in TokenHashes, k \in 1..MaxDownloads : CreateToken(h, k)
    \/ \E h \in TokenHashes : SendDeliveryEmail(h)
    \/ \E h \in TokenHashes : Expire(h)
    \/ \E h \in TokenHashes : RevokeToken(h)
    \/ \E e \in Exchanges, h \in TokenHashes : ExchangeLookup(e, h)
    \/ \E e \in Exchanges : Validate(e)
    \/ \E e \in Exchanges : GenerateUrl(e)
    \/ \E e \in Exchanges : GenerateUrlFails(e)
    \/ \E e \in Exchanges : UpdateToken(e)
    \/ \E e \in Exchanges : LogSuccess(e)
    \/ \E e \in Exchanges : LogFailure(e)

SpecToken == Init /\ [][NextToken]_vars

\* ------------------------------- tokens of the standard download allowance
\* on_production_completed for a customer who is not enterprise: the token
\* is built with max_downloads = settings.MAX_DOWNLOADS_PER_TOKEN
NextRevoke ==
    \/ \E h \in TokenHashes : CreateToken(h, MAX_DOWNLOADS_PER_TOKEN)
    \/ \E h \in TokenHashes : SendDeliveryEmail(h)
    \/ \E h \in TokenHashes : Expire(h)
    \/ \E h \in TokenHashes : RevokeToken(h)
    \/ \E e \in Exchanges, h \in TokenHashes : ExchangeLookup(e, h)
    \/ \E e \in Exchanges : Validate(e)
    \/ \E e \in Exchanges : GenerateUrl(e)
    \/ \E e \in Exchanges : GenerateUrlFails(e)
    \/ \E e \in Exchanges : UpdateToken(e)
    \/ \E e \in Exchanges : LogSuccess(e)
    \/ \E e \in Exchanges : LogFailure(e)

SpecRevoke == Init /\ [][NextRevoke]_vars

\* tokens that are created, mailed and exchanged, none revoked or expired
NextExchange ==
    \/ \E h \in TokenHashes, k \in 1..MaxDownloads : CreateToken(h, k)
    \/ \E h \in TokenHashes : SendDeliveryEmail(h)
    \/ \E e \in Exchanges, h \in TokenHashes : ExchangeLookup(e, h)
    \/ \E e \in Exchanges : Validate(e)
    \/ \E e \in Exchanges : GenerateUrl(e)
    \/ \E e \in Exchanges : GenerateUrlFails(e)
    \/ \E e \in Exchanges : UpdateToken(e)
    \/ \E e \in Exchanges : LogSuccess(e)
    \/ \E e \in Exchanges : LogFailure(e)

SpecExchange == Init /\ [][NextExchange]_vars

\* ------------------------------ production-completed, delivered repeatedly
\* the Delivery Agent as constructed, the token store ready for the hashes
\* _generate_token will return
InitCompleted ==
    /\ StoreInit /\ GatewayInit /\ CallersInit /\ OrderIdle /\ HooksInit
    /\ MailInit /\ BusInit /\ BreakerDefault
    /\ heap = <<>>
    /\ tokStored = [t \in CompletionHashes |-> 0]
    /\ expired = {}
    /\ attempts = <<>>
    /\ epc = [e \in Exchanges |-> "idle"]
    /\ ehash = [e \in Exchanges |-> "none"]
    /\ etok = [e \in Exchanges |-> 0]
    /\ eupd = [e \in Exchanges |-> [download_count |-> 0, status |-> "none",
                                   max_downloads |-> 0]]
    /\ ereason = [e \in Exchanges |-> "none"]
    /\ eresult = [e \in Exchanges |-> "none"]
    /\ eafter = [e \in Exchanges |-> FALSE]
    /\ urls = {}
    /\ emails = {}
    /\ byOrder = [o \in OrderIds |-> <<>>]

\* on_production_completed is called for the order, any number of times; a
\* token may expire or be revoked in between
NextCompleted ==
    \/ \E h \in CompletionHashes, k \in 1..MaxDownloads : CreateToken(h, k)
    \/ \E h \in CompletionHashes : SendDeliveryEmail(h)
    \/ \E h \in CompletionHashes : Expire(h)
    \/ \E h \in CompletionHashes : RevokeToken(h)

SpecCompleted == InitCompleted /\ [][NextCompleted]_vars

\* ------------------------------- process_webhook and the dead-letter queue
\* the correlation id and the Stripe event id of the event call w carries
HookCorrelation(w) == <<"corr", "evt", w>>

StripeEventId(w) == <<"evt", w>>

\* WebhookEvent.is_retriable
is_retriable(ev) ==
    ev.attempt_count < ev.max_attempts /\ ev.status # "dead_letter_queue"

\* stripe.Webhook.construct_event: a signature that does not verify raises
\* before anything else is done
SignatureAcceptedAlways(valid) == TRUE

SignatureAccepted(valid) == valid

\* the event types _register_handlers registers a handler for
RegisteredTypes ==
    {"checkout.session.completed", "payment_intent.payment_failed",
     "checkout.session.expired", "charge.refunded"}

\* the event types of the webhooks received: one with a handler, one without
HookTypes == {"checkout.session.completed", "invoice.paid"}

\* WebhookRouter.route: self._handlers.get(event_type) is a handler
HasHandlerAlways(event_type) == TRUE

HasHandler(event_type) == event_type \in RegisteredTypes

\* process_webhook up to its first await. sig_ok: the signature verifies;
\* m: the configured retry limit, any value up to the default; event_type:
\* event["type"]. An invalid
\* signature raises ValueError at once; otherwise the WebhookEvent is built
\* (signed: whether the payload it was parsed from carried a valid signature).
\* Calls are interchangeable, so they arrive in the order of their ids.
ProcessWebhook(w, sig_ok, m, event_type) ==
    /\ wpc[w] = "idle"
    /\ \A x \in Webhooks : x < w => wpc[x] # "idle"
    /\ IF SignatureAccepted(sig_ok)
       THEN /\ wpc' = [wpc EXCEPT ![w] = "audit_received"]
            /\ wevent' = [wevent EXCEPT ![w] =
                  [status |-> "pending", attempt_count |-> 0, max_attempts |-> m,
                   signed |-> sig_ok, event_type |-> event_type]]
       ELSE /\ wpc' = [wpc EXCEPT ![w] = "rejected"]
            /\ UNCHANGED wevent
    /\ UNCHANGED <<dlqQueue, nRetry, auditLog>>
    /\ UNCHANGED <<wresult, NotWebhook>>

\* _emit_audit(WEBHOOK_RECEIVED), then create_task(_process_webhook_with_dlq)
\* and the return of {"status": "received"}
AuditReceived(w) ==
    /\ wpc[w] = "audit_received"
    /\ auditLog' = Append(auditLog,
          AuditEntry(HookCorrelation(w), "webhook.received", StripeEventId(w)))
    /\ wpc' = [wpc EXCEPT ![w] = "task"]
    /\ UNCHANGED <<wevent, dlqQueue, nRetry>>
    /\ UNCHANGED <<wresult, NotWebhook>>

\* the task starts: attempt_count += 1, status PROCESSING, router.route called
TaskStart(w) ==
    /\ wpc[w] = "task"
    /\ wevent' = [wevent EXCEPT ![w].attempt_count = @ + 1,
                                ![w].status = "processing"]
    /\ wpc' = [wpc EXCEPT ![w] = "route"]
    /\ UNCHANGED <<dlqQueue, nRetry, auditLog>>
    /\ UNCHANGED <<wresult, NotWebhook>>

\* router.route returns, None when no handler is registered for the event
\* type and what the handler returned otherwise: status COMPLETED
RouteReturns(w) ==
    /\ wpc[w] = "route"
    /\ wresult' = [wresult EXCEPT ![w] =
                      IF HasHandler(wevent[w].event_type) THEN "handled" ELSE "None"]
    /\ wevent' = [wevent EXCEPT ![w].status = "completed"]
    /\ wpc' = [wpc EXCEPT ![w] = "audit_processed"]
    /\ UNCHANGED <<dlqQueue, nRetry, auditLog>>
    /\ UNCHANGED NotWebhook

\* _emit_audit(WEBHOOK_PROCESSED); the task ends
AuditProcessed(w) ==
    /\ wpc[w] = "audit_processed"
    /\ auditLog' = Append(auditLog,
          AuditEntry(HookCorrelation(w), "webhook.processed", StripeEventId(w)))
    /\ wpc' = [wpc EXCEPT ![w] = "done"]
    /\ UNCHANGED <<wevent, dlqQueue, nRetry>>
    /\ UNCHANGED <<wresult, NotWebhook>>

\* router.route raises what the handler of the event type raised: a
\* retriable event is marked FAILED with a next_retry_at and the task ends;
\* any other goes to the dead-letter queue
RouteRaises(w) ==
    /\ wpc[w] = "route"
    /\ HasHandler(wevent[w].event_type)
    /\ IF is_retriable(wevent[w])
       THEN /\ wevent' = [wevent EXCEPT ![w].status = "failed"]
            /\ wpc' = [wpc EXCEPT ![w] = "done"]
       ELSE /\ wpc' = [wpc EXCEPT ![w] = "enqueue"]
            /\ UNCHANGED wevent
    /\ UNCHANGED <<dlqQueue, nRetry, auditLog>>
    /\ UNCHANGED <<wresult, NotWebhook>>

\* dlq.enqueue(webhook_event): status DLQ, the event stored in the queue
EnqueueDlq(w) ==
    /\ wpc[w] = "enqueue"
    /\ wevent' = [wevent EXCEPT ![w].status = "dead_letter_queue"]
    /\ dlqQueue' = dlqQueue \cup {w}
    /\ wpc' = [wpc EXCEPT ![w] = "audit_dlq"]
    /\ UNCHANGED <<nRetry, auditLog>>
    /\ UNCHANGED <<wresult, NotWebhook>>

\* _emit_audit(WEBHOOK_DLQ); the task ends
AuditDlq(w) ==
    /\ wpc[w] = "audit_dlq"
    /\ auditLog' = Append(auditLog,
          AuditEntry(HookCorrelation(w), "webhook.dead_letter_queue", StripeEventId(w)))
    /\ wpc' = [wpc EXCEPT ![w] = "done"]
    /\ UNCHANGED <<wevent, dlqQueue, nRetry>>
    /\ UNCHANGED <<wresult, NotWebhook>>

\* InMemoryDeadLetterQueue.get_pending: the queued events still in status DLQ
get_pending(queue, events) == {w \in queue : events[w].status = "dead_letter_queue"}

\* retry_dlq_events, one pending event: its payload is routed again; a
\* handler that returns has the event marked processed, one that raises
\* leaves it as it is
RetryDlqEvent(w, ok) ==
    /\ nRetry < MaxDlqRetries
    /\ w \in get_pending(dlqQueue, wevent)
    /\ nRetry' = nRetry + 1
    /\ wevent' = IF ok THEN [wevent EXCEPT ![w].status = "completed"] ELSE wevent
    /\ UNCHANGED <<wpc, dlqQueue, auditLog>>
    /\ UNCHANGED <<wresult, NotWebhook>>

NextWebhook ==
    \/ \E w \in Webhooks, sig_ok \in BOOLEAN, m \in 1..DLQ_MAX_RETRIES :
          ProcessWebhook(w, sig_ok, m, "checkout.session.completed")
    \/ \E w \in Webhooks : AuditReceived(w)
    \/ \E w \in Webhooks : TaskStart(w)
    \/ \E w \in Webhooks : RouteReturns(w)
    \/ \E w \in Webhooks : AuditProcessed(w)
    \/ \E w \in Webhooks : RouteRaises(w)
    \/ \E w \in Webhooks : EnqueueDlq(w)
    \/ \E w \in Webhooks : AuditDlq(w)
    \/ \E w \in Webhooks, ok \in BOOLEAN : RetryDlqEvent(w, ok)

SpecWebhook == Init /\ [][NextWebhook]_vars

\* ---------------------------- dead-lettered checkout webhooks, retried
\* the checkout session the event of call w is about
HookSession(w) == IF w = 1 THEN "cs_1" ELSE "cs_2"

\* the correlation id retry_dlq_events hands to router.route:
\* event.payload.get("metadata", {}).get("correlation_id", str(uuid.uuid4())).
\* The payload is dict(event), the Stripe event, whose metadata lies under
\* data.object and not at the top: the default, a fresh uuid, is taken
DlqRetryCorrelation(w) == <<"uuid4", w>>

\* holder_id = str(uuid.uuid4()) of the handler retry_dlq_events runs
DlqRetryHolder(w) == 0 - w

\* retry_dlq_events, one pending checkout.session.completed event, with no
\* other task running in between: _on_checkout_completed is routed again.
\* A key that is completed or held elsewhere makes the handler return; with
\* the key acquired and the brief cached the Order is saved and queued, the
\* two audit entries are written and the key is marked completed; without
\* the brief the handler releases and raises. A handler that returned has
\* the event marked processed.
RetryDlqCheckout(w) ==
    /\ nRetry < MaxDlqRetries
    /\ w \in get_pending(dlqQueue, wevent)
    /\ nRetry' = nRetry + 1
    /\ LET s == HookSession(w)
           k == KeyOf(s)
           h == DlqRetryHolder(w)
           corr == DlqRetryCorrelation(w)
           oid == generate_order_id(BriefOf(s))
           taken == [records EXCEPT ![k] =
                       [status |-> "processing", lock_holder |-> h, result |-> "none"]]
           order == [transition_to(NewOrder(s), "queued") EXCEPT !.correlation_id = corr]
       IN  IF ~CanAcquire(idemLock, records, k, h)
           THEN /\ wevent' = [wevent EXCEPT ![w].status = "completed"]
                /\ UNCHANGED <<records, orders, auditLog>>
           ELSE IF BriefCached(briefCache, BriefOf(s))
           THEN /\ orders' = save(orders, oid, order)
                /\ auditLog' = auditLog \o
                      << AuditEntry(corr, "payment.confirmed", oid),
                         AuditEntry(corr, "order.created", oid) >>
                /\ records' = MarkedRecords(taken, k, oid)
                /\ wevent' = [wevent EXCEPT ![w].status = "completed"]
           ELSE /\ records' = ReleasedRecords(taken, k, h)
                /\ UNCHANGED <<wevent, orders, auditLog>>
    /\ UNCHANGED <<wpc, dlqQueue, wresult, idemLock>>
    /\ UNCHANGED <<pc, dsession, result, sessionLock, briefCache, busEvents,
                   nRefunds, nPublish, retry>>
    /\ UNCHANGED <<callerVars, orderVars, tokenVars, busVars, cbVars, mailVars>>

NextRetry ==
    \/ \E w \in Webhooks, sig_ok \in BOOLEAN, m \in 1..DLQ_MAX_RETRIES :
          ProcessWebhook(w, sig_ok, m, "checkout.session.completed")
    \/ \E w \in Webhooks : AuditReceived(w)
    \/ \E w \in Webhooks : TaskStart(w)
    \/ \E w \in Webhooks : RouteReturns(w)
    \/ \E w \in Webhooks : AuditProcessed(w)
    \/ \E w \in Webhooks : RouteRaises(w)
    \/ \E w \in Webhooks : EnqueueDlq(w)
    \/ \E w \in Webhooks : AuditDlq(w)
    \/ \E w \in Webhooks : RetryDlqCheckout(w)
    \/ \E b \in Briefs : CacheBrief(b)

SpecRetry == Init /\ [][NextRetry]_vars

\* ------------------------------------- webhooks of any event type, routed
\* process_webhook given events with and without a registered handler, the
\* retry limit at its least and at its default
NextRoute ==
    \/ \E w \in Webhooks, sig_ok \in BOOLEAN, m \in {1, DLQ_MAX_RETRIES},
          event_type \in HookTypes :
          ProcessWebhook(w, sig_ok, m, event_type)
    \/ \E w \in Webhooks : AuditReceived(w)
    \/ \E w \in Webhooks : TaskStart(w)
    \/ \E w \in Webhooks : RouteReturns(w)
    \/ \E w \in Webhooks : AuditProcessed(w)
    \/ \E w \in Webhooks : RouteRaises(w)
    \/ \E w \in Webhooks : EnqueueDlq(w)
    \/ \E w \in Webhooks : AuditDlq(w)
    \/ \E w \in Webhooks, ok \in BOOLEAN : RetryDlqEvent(w, ok)

SpecRoute == Init /\ [][NextRoute]_vars

\* ------------------------------------- the in-process bus and its handlers
\* what handler h publishes while it handles an event of a type:
\* BriefAssemblerIntegration._process_cards, PaymentGatewayIntegration
\* ._create_checkout, RAGNAROKIntegration._process_order; the Delivery Agent's
\* handlers only log
HandlerEmits(h, event_type) ==
    CASE h = "brief_assembler" /\ event_type = "conversation.cards_complete" ->
            "brief.assembled"
      [] h = "payment_gateway" /\ event_type = "brief.assembled" ->
            "payment.session_created"
      [] h = "ragnarok" /\ event_type = "order.queued" -> "production.started"
      [] OTHER -> "none"

\* asyncio.Lock has no owner: acquire waits while the lock is locked, whoever
\* locked it
LockFree(lock, p) == lock = 0

\* the innermost publish call of task p
Innermost(p) == frames[p][Len(frames[p])]

\* self._handlers[event_type].append((subscription_id, handler)) for each type
Subscribed(hs, h) ==
    [t \in EventTypes |-> IF t \in SubscribesTo(h) THEN Append(hs[t], h) ELSE hs[t]]

\* the list without the entries of one subscription
Without(list, h) == SelectSeq(list, LAMBDA x : x # h)

\* the event bus adapter's settings.MAX_RETRIES
MAX_RETRIES == 3

\* handlers = self._handlers.get(event.event_type, [])
HandlersForAny(hs, event_type) ==
    hs["conversation.cards_complete"] \o hs["brief.assembled"] \o hs["order.queued"]

HandlersFor(hs, event_type) == hs[event_type]

\* the loop over the handlers after one of them raised: the exception is
\* logged and the loop goes on with the next handler
NextAfterErrorStops(next, len) == len + 1

NextAfterError(next, len) == next + 1

\* InMemoryEventBus.connect
Connect ==
    /\ ~connected
    /\ connected' = TRUE
    /\ UNCHANGED <<busLock, published, bpc, frames, handlers, started, calls>>
    /\ UNCHANGED NotBus

\* an integration's start(): bus.subscribe(config.subscribes_to, handler);
\* the orchestrator starts the integrations one after the other
Subscribe(h) ==
    /\ h \notin started
    /\ Before(h) \subseteq started
    /\ busLock = 0
    /\ handlers' = Subscribed(handlers, h)
    /\ started' = started \cup {h}
    /\ UNCHANGED <<connected, busLock, published, bpc, frames, calls>>
    /\ UNCHANGED NotBus

\* whether a subscription of h is in _handlers
IsSubscribed(hs, h) ==
    \E t \in EventTypes : \E i \in 1..Len(hs[t]) : hs[t][i] = h

\* an integration's stop(): bus.unsubscribe(self._subscription_id); the
\* orchestrator stops the integrations one after the other
Unsubscribe(h) ==
    /\ h \in started
    /\ IsSubscribed(handlers, h)
    /\ \A g \in Before(h) : ~IsSubscribed(handlers, g)
    /\ busLock = 0
    /\ handlers' = [t \in EventTypes |-> Without(handlers[t], h)]
    /\ UNCHANGED <<connected, busLock, published, bpc, frames, started, calls>>
    /\ UNCHANGED NotBus

\* PipelineOrchestrator.start: connect, then the four subscribe calls
PipelineStart ==
    /\ ~connected
    /\ started = {}
    /\ connected' = TRUE
    /\ handlers' =
          Subscribed(Subscribed(Subscribed(Subscribed(handlers,
              Integrations[1]), Integrations[2]), Integrations[3]), Integrations[4])
    /\ started' = Handlers
    /\ UNCHANGED <<busLock, published, bpc, frames, calls>>
    /\ UNCHANGED NotBus

\* await bus.publish(event) from outside a handler, up to the lock
Publish(p, event_type) ==
    /\ bpc[p] = "idle"
    /\ \A q \in Publishers : q < p => bpc[q] # "idle"
    /\ IF ~connected
          THEN /\ bpc' = [bpc EXCEPT ![p] = "raised"]
               /\ UNCHANGED frames
          ELSE /\ bpc' = [bpc EXCEPT ![p] = "acquire"]
               /\ frames' = [frames EXCEPT ![p] =
                     <<[event_type |-> event_type, event |-> 0, next |-> 1]>>]
    /\ UNCHANGED <<connected, busLock, published, handlers, started, calls>>
    /\ UNCHANGED NotBus

\* async with self._lock: self._events.append(event), and the loop over the
\* handlers begins
AcquireBusLock(p) ==
    /\ bpc[p] = "acquire"
    /\ LockFree(busLock, p)
    /\ busLock' = p
    /\ published' = Append(published,
          [event_type |-> Innermost(p).event_type, correlation_id |-> p])
    /\ frames' = [frames EXCEPT ![p][Len(frames[p])].event = Len(published) + 1]
    /\ bpc' = [bpc EXCEPT ![p] = "dispatch"]
    /\ UNCHANGED <<connected, handlers, started, calls>>
    /\ UNCHANGED NotBus

\* the handler the loop of the innermost publish call of p calls next
NextHandler(p) ==
    HandlersFor(handlers, Innermost(p).event_type)[Innermost(p).next]

\* await handler(event): the handler is called and returns, or raises and the
\* exception is caught and logged
HandlerReturns(p, raised) ==
    /\ bpc[p] = "dispatch"
    /\ Innermost(p).next <= Len(HandlersFor(handlers, Innermost(p).event_type))
    /\ raised \/ HandlerEmits(NextHandler(p), Innermost(p).event_type) = "none"
    /\ calls' = Append(calls, [handler |-> NextHandler(p),
                               event |-> Innermost(p).event, raised |-> raised])
    /\ frames' = [frames EXCEPT ![p][Len(frames[p])].next =
          IF raised
          THEN NextAfterError(@, Len(HandlersFor(handlers, Innermost(p).event_type)))
          ELSE @ + 1]
    /\ UNCHANGED <<connected, busLock, published, bpc, handlers, started>>
    /\ UNCHANGED NotBus

\* await handler(event): the handler is called and reaches its own
\* await self.bus.publish(...)
HandlerPublishes(p) ==
    /\ bpc[p] = "dispatch"
    /\ Innermost(p).next <= Len(HandlersFor(handlers, Innermost(p).event_type))
    /\ HandlerEmits(NextHandler(p), Innermost(p).event_type) # "none"
    /\ calls' = Append(calls, [handler |-> NextHandler(p),
                               event |-> Innermost(p).event, raised |-> FALSE])
    /\ frames' = [frames EXCEPT ![p] =
          Append([@ EXCEPT ![Len(@)].next = @ + 1],
                 [event_type |-> HandlerEmits(NextHandler(p), Innermost(p).event_type),
                  event |-> 0, next |-> 1])]
    /\ bpc' = [bpc EXCEPT ![p] = "acquire"]
    /\ UNCHANGED <<connected, busLock, published, handlers, started>>
    /\ UNCHANGED NotBus

\* every handler of the event has been called: the lock is released and
\* publish returns True, to the handler that called it or to the task
PublishReturns(p) ==
    /\ bpc[p] = "dispatch"
    /\ Innermost(p).next > Len(HandlersFor(handlers, Innermost(p).event_type))
    /\ busLock' = 0
    /\ frames' = [frames EXCEPT ![p] = SubSeq(@, 1, Len(@) - 1)]
    /\ bpc' = [bpc EXCEPT ![p] = IF Len(frames[p]) = 1 THEN "returned"
                                                        ELSE "dispatch"]
    /\ UNCHANGED <<connected, published, handlers, started, calls>>
    /\ UNCHANGED NotBus

\* what task p can do next
PublisherStep(p) ==
    \/ AcquireBusLock(p)
    \/ \E raised \in BOOLEAN : HandlerReturns(p, raised)
    \/ HandlerPublishes(p)
    \/ PublishReturns(p)

NextBus ==
    \/ Connect
    \/ PipelineStart
    \/ \E h \in Handlers : Subscribe(h)
    \/ \E h \in Handlers : Unsubscribe(h)
    \/ \E p \in Publishers, t \in EntryTypes : Publish(p, t)
    \/ \E p \in Publishers : AcquireBusLock(p)
    \/ \E p \in Publishers, raised \in BOOLEAN : HandlerReturns(p, raised)
    \/ \E p \in Publishers : HandlerPublishes(p)
    \/ \E p \in Publishers : PublishReturns(p)

SpecBus == Init /\ [][NextBus]_vars

\* InMemoryEventBus.disconnect, the last call of PipelineOrchestrator.stop:
\* the four stop() calls have gone before it, on a pipeline whose start()
\* had completed or on a bus connected by hand
Disconnect ==
    /\ connected
    /\ busLock = 0
    /\ started \in {{}, Handlers}
    /\ \A h \in Handlers : ~IsSubscribed(handlers, h)
    /\ connected' = FALSE
    /\ UNCHANGED <<busLock, published, bpc, frames, handlers, started, calls>>
    /\ UNCHANGED NotBus

\* PipelineOrchestrator.health_check: the bus's _connected, and for each
\* integration whether its _subscription_id is not None
health_check(is_connected, subscription_ids) ==
    [c \in Handlers \cup {"event_bus"} |->
        IF c = "event_bus" THEN is_connected ELSE c \in subscription_ids]

NextHealth ==
    \/ NextBus
    \/ Disconnect

SpecHealth == Init /\ [][NextHealth]_vars

\* ------------------------------------------------------ the circuit breaker
\* a breaker constructed with any threshold and timeout, the rest idle
InitBreaker ==
    /\ StoreInit /\ GatewayInit /\ CallersInit /\ OrderIdle /\ TokensInit
    /\ HooksInit /\ MailInit /\ BusInit
    /\ \E threshold \in 1..MaxThreshold, timeout \in 1..MaxResetTimeout :
          BreakerInit(threshold, timeout)

\* elapsed >= self.reset_timeout, with elapsed = utcnow() - _last_failure_time
TimeoutElapsed(clock, last, timeout) == clock - last >= timeout

\* self._failures >= self.failure_threshold
ThresholdReachedLate(failures, threshold) == failures > threshold

ThresholdReachedAtOnce(failures, threshold) == failures >= 1

ThresholdReached(failures, threshold) == failures >= threshold

\* time passes
Tick ==
    /\ now < MaxClock
    /\ now' = now + 1
    /\ UNCHANGED <<failure_threshold, reset_timeout, cb_state, cb_failures,
                   last_failure_time, cbCall, cbPrev, streak, cbAllowed,
                   trials, wcall, invocations>>
    /\ UNCHANGED NotBreaker

\* CircuitBreaker.can_execute: an open breaker becomes half-open once the
\* timeout has elapsed since _last_failure_time
can_execute ==
    /\ trials < MaxTrials
    /\ cbCall' = "can_execute"
    /\ cbPrev' = cb_state
    /\ cb_state' =
          IF /\ cb_state = "open"
             /\ last_failure_time # -1
             /\ TimeoutElapsed(now, last_failure_time, reset_timeout)
          THEN "half_open" ELSE cb_state
    /\ cbAllowed' = (cb_state' # "open")
    /\ trials' = IF cb_state' = "half_open" THEN trials + 1 ELSE 0
    /\ UNCHANGED <<failure_threshold, reset_timeout, cb_failures,
                   last_failure_time, now, streak, wcall, invocations>>
    /\ UNCHANGED NotBreaker

\* CircuitBreaker.record_success
record_success ==
    /\ cbCall' = "record_success"
    /\ cbPrev' = cb_state
    /\ streak' = 0
    /\ cb_state' = IF cb_state = "half_open" THEN "closed" ELSE cb_state
    /\ cb_failures' = IF cb_state \in {"half_open", "closed"} THEN 0
                      ELSE cb_failures
    /\ trials' = 0
    /\ UNCHANGED <<failure_threshold, reset_timeout, last_failure_time, now,
                   cbAllowed, wcall, invocations>>
    /\ UNCHANGED NotBreaker

\* CircuitBreaker.record_failure
record_failure ==
    /\ cb_failures < MaxFailures
    /\ cbCall' = "record_failure"
    /\ cbPrev' = cb_state
    /\ streak' = streak + 1
    /\ cb_failures' = cb_failures + 1
    /\ last_failure_time' = now
    /\ cb_state' =
          IF cb_state = "half_open" THEN "open"
          ELSE IF ThresholdReached(cb_failures + 1, failure_threshold) THEN "open"
          ELSE cb_state
    /\ trials' = 0
    /\ UNCHANGED <<failure_threshold, reset_timeout, now, cbAllowed, wcall,
                   invocations>>
    /\ UNCHANGED NotBreaker

NextBreaker ==
    \/ Tick
    \/ can_execute
    \/ record_success
    \/ record_failure

SpecBreaker == InitBreaker /\ [][NextBreaker]_vars

\* ------------------------------------ SendGrid events and bounce alerts
\* the keys of InMemoryNotificationRepository._records: save stores a record
\* under its sendgrid_message_id, when it has one, and under its
\* notification_id; _send_notification sets the message id before it saves
RecordKeys(recs) ==
    {k \in {"sendgrid_message_id", "notification_id"} \X Notifications :
        recs[k[2]].status # "none"}

\* get_bounces_for_email: the entries of _records.values(), one per key,
\* whose record has the recipient, the status BOUNCED and a bounced_at
\* within the last 7 days
get_bounces_for_email(recs, email) ==
    {k \in RecordKeys(recs) :
        /\ recs[k[2]].recipient_email = email
        /\ recs[k[2]].status = "bounced"
        /\ recs[k[2]].bounced_at = "recent"}

\* status_map of _update_notification_from_webhook
StatusOfEvent(event_type) ==
    CASE event_type = "delivered" -> "delivered"
      [] event_type = "open" -> "opened"
      [] event_type = "click" -> "clicked"
      [] event_type = "bounce" -> "bounced"
      [] event_type = "dropped" -> "dropped"

MailEventTypes == {"delivered", "open", "click", "bounce", "dropped"}

\* the severity _handle_delivery_failure gives its alert
Severity(count, event_type) ==
    IF count >= BOUNCE_ALERT_THRESHOLD THEN "high"
    ELSE IF event_type = "dropped" THEN "medium"
    ELSE "low"

\* _send_notification: the record is built, given its sendgrid_message_id
\* and the status SENT, and saved. Notifications are interchangeable, so
\* they are sent in the order of their ids.
SendNotification(n, email) ==
    /\ nrec[n].status = "none"
    /\ \A m \in Notifications : m < n => nrec[m].status # "none"
    /\ nrec' = [nrec EXCEPT ![n] =
          [status |-> "sent", recipient_email |-> email, bounced_at |-> "none"]]
    /\ UNCHANGED <<mpc, mevent, mcount, alerts>>
    /\ UNCHANGED NotMail

\* handle_sendgrid_webhook takes its next event: _parse_sendgrid_event of an
\* event of SendGrid about the message of notification n, sent to the
\* recipient of n. The events of the call are handled one after the other.
ReceiveEvent(c, event_type, n) ==
    /\ mpc[c] = "idle"
    /\ \A b \in Callbacks : b < c => mpc[b] = "done"
    /\ nrec[n].status # "none"
    /\ mevent' = [mevent EXCEPT ![c] =
          [event_type |-> event_type, sg_message_id |-> n,
           email |-> nrec[n].recipient_email]]
    /\ mpc' = [mpc EXCEPT ![c] = "update"]
    /\ UNCHANGED <<nrec, mcount, alerts>>
    /\ UNCHANGED NotMail

\* the event is handled: its locals are gone
EventHandled(c) ==
    /\ mpc' = [mpc EXCEPT ![c] = "done"]
    /\ mevent' = [mevent EXCEPT ![c] = NoMailEvent]
    /\ mcount' = [mcount EXCEPT ![c] = 0]

\* _update_notification_from_webhook -> notifications.update_status: the
\* record's status is set to the status of the event, and bounced_at to the
\* event's timestamp for a bounce; a bounce or a drop goes on to
\* _handle_delivery_failure
UpdateNotification(c) ==
    /\ mpc[c] = "update"
    /\ LET n == mevent[c].sg_message_id IN
       nrec' = [nrec EXCEPT ![n].status = StatusOfEvent(mevent[c].event_type),
                            ![n].bounced_at =
                                IF mevent[c].event_type = "bounce" THEN "recent" ELSE @]
    /\ IF mevent[c].event_type \in {"bounce", "dropped"}
       THEN /\ mpc' = [mpc EXCEPT ![c] = "count"]
            /\ UNCHANGED <<mevent, mcount>>
       ELSE EventHandled(c)
    /\ UNCHANGED alerts
    /\ UNCHANGED NotMail

\* _handle_delivery_failure up to the return of get_bounces_for_email
GetBounces(c) ==
    /\ mpc[c] = "count"
    /\ mcount' = [mcount EXCEPT ![c] =
                     Cardinality(get_bounces_for_email(nrec, mevent[c].email))]
    /\ mpc' = [mpc EXCEPT ![c] = "alert"]
    /\ UNCHANGED <<nrec, mevent, alerts>>
    /\ UNCHANGED NotMail

\* _handle_delivery_failure from there on: the severity is decided, the
\* notification looked up for the alert's context, and the alert sent
SendAlert(c) ==
    /\ mpc[c] = "alert"
    /\ alerts' = Append(alerts,
          [alert_type |-> mevent[c].event_type,
           severity |-> Severity(mcount[c], mevent[c].event_type),
           recipient_email |-> mevent[c].email])
    /\ EventHandled(c)
    /\ UNCHANGED nrec
    /\ UNCHANGED NotMail

\* seven days pass: every bounced_at now lies before utcnow() - 7 days
SevenDaysPass ==
    /\ \E n \in Notifications : nrec[n].bounced_at = "recent"
    /\ nrec' = [n \in Notifications |->
                  [nrec[n] EXCEPT !.bounced_at = IF @ = "recent" THEN "old" ELSE @]]
    /\ UNCHANGED <<mpc, mevent, mcount, alerts>>
    /\ UNCHANGED NotMail

NextMail ==
    \/ \E n \in Notifications, email \in Recipients : SendNotification(n, email)
    \/ \E c \in Callbacks, event_type \in MailEventTypes, n \in Notifications :
          ReceiveEvent(c, event_type, n)
    \/ \E c \in Callbacks : UpdateNotification(c)
    \/ \E c \in Callbacks : GetBounces(c)
    \/ \E c \in Callbacks : SendAlert(c)
    \/ SevenDaysPass

SpecMail == Init /\ [][NextMail]_vars

\* ------------------------------------ calls through with_circuit_breaker
\* what can_execute returns with the breaker left in the given state
AdmittedAlways(state_after) == TRUE

Admitted(state_after) == state_after # "open"

\* wrapper up to `await func(*args, **kwargs)`: can_execute; a False raises
\* ConnectionError, a True has the wrapped function called. Calls are
\* interchangeable, so they start in the order of their ids.
WrapperCall(c) ==
    /\ wcall[c] = "idle"
    /\ \A b \in WrappedCalls : b < c => wcall[b] # "idle"
    /\ cbCall' = "can_execute"
    /\ cbPrev' = cb_state
    /\ cb_state' =
          IF /\ cb_state = "open"
             /\ last_failure_time # -1
             /\ TimeoutElapsed(now, last_failure_time, reset_timeout)
          THEN "half_open" ELSE cb_state
    /\ cbAllowed' = Admitted(cb_state')
    /\ trials' = IF cb_state' = "half_open" THEN trials + 1 ELSE 0
    /\ IF Admitted(cb_state')
       THEN /\ wcall' = [wcall EXCEPT ![c] = "running"]
            /\ invocations' = invocations + 1
       ELSE /\ wcall' = [wcall EXCEPT ![c] = "rejected"]
            /\ UNCHANGED invocations
    /\ UNCHANGED <<failure_threshold, reset_timeout, cb_failures,
                   last_failure_time, now, streak>>
    /\ UNCHANGED NotBreaker

\* the wrapped function returns: record_success, then the result is returned
FuncReturns(c) ==
    /\ wcall[c] = "running"
    /\ wcall' = [wcall EXCEPT ![c] = "returned"]
    /\ cbCall' = "record_success"
    /\ cbPrev' = cb_state
    /\ streak' = 0
    /\ cb_state' = IF cb_state = "half_open" THEN "closed" ELSE cb_state
    /\ cb_failures' = IF cb_state \in {"half_open", "closed"} THEN 0
                      ELSE cb_failures
    /\ trials' = 0
    /\ UNCHANGED <<failure_threshold, reset_timeout, last_failure_time, now,
                   cbAllowed, invocations>>
    /\ UNCHANGED NotBreaker

\* the wrapped function raises: record_failure, then the exception is raised
FuncRaises(c) ==
    /\ wcall[c] = "running"
    /\ wcall' = [wcall EXCEPT ![c] = "raised"]
    /\ cbCall' = "record_failure"
    /\ cbPrev' = cb_state
    /\ streak' = streak + 1
    /\ cb_failures' = cb_failures + 1
    /\ last_failure_time' = now
    /\ cb_state' =
          IF cb_state = "half_open" THEN "open"
          ELSE IF ThresholdReached(cb_failures + 1, failure_threshold) THEN "open"
          ELSE cb_state
    /\ trials' = 0
    /\ UNCHANGED <<failure_threshold, reset_timeout, now, cbAllowed, invocations>>
    /\ UNCHANGED NotBreaker

NextWrapped ==
    \/ Tick
    \/ \E c \in WrappedCalls : WrapperCall(c)
    \/ \E c \in WrappedCalls : FuncReturns(c)
    \/ \E c \in WrappedCalls : FuncRaises(c)

SpecWrapped == InitBreaker /\ [][NextWrapped]_vars

\* =================================================================
\* The claims
\* =================================================================

\* the deliveries of session s that have arrived
Started(s) == {d \in Deliveries : pc[d] # "idle" /\ dsession[d] = s}

\* the audit entries of one type under one correlation id
CountAudit(log, corr, type) ==
    Len(SelectSeq(get_by_correlation_id(log, corr), LAMBDA e : e.event_type = type))

\* the order.queued events published under one correlation id
CountQueued(events, corr) ==
    Len(SelectSeq(events, LAMBDA e : e.event_type = "order.queued" /\ e.correlation_id = corr))

\* the places of the handler past a successful try_acquire
PastAcquire ==
    {"get_brief", "release_missing", "release_except", "save_confirmed",
     "audit_confirmed", "save_queued", "audit_created", "mark_completed"}

\* the lifecycle graph of section 4.3 of the specification, read generously:
\* the main line by rank, cancelled and refunded from any state before
\* delivered that is not itself cancelled or refunded
Rank(st) ==
    CASE st = "pending" -> 0
      [] st = "awaiting_payment" -> 1
      [] st = "payment_processing" -> 2
      [] st = "payment_confirmed" -> 3
      [] st = "payment_failed" -> 3
      [] st = "queued" -> 4
      [] st = "in_production" -> 5
      [] st = "completed" -> 6
      [] st = "delivered" -> 7
      [] OTHER -> 8

MainLine == OrderStatus \ {"cancelled", "refunded"}

Forward(from, to) ==
    \/ from \in MainLine /\ to \in MainLine /\ Rank(from) < Rank(to)
    \/ from \in MainLine \ {"delivered"} /\ to \in {"cancelled", "refunded"}

\* C1: for the deliveries of one session, none of which met a missing brief:
\* never more than one returns success, and once all that arrived have
\* returned, exactly one returned success, every other one returned
\* already_processing or already_processed, the order store holds exactly
\* one Order, and that Order was created once (one order.created entry).
C1_ExactlyOneSuccess ==
    \A s \in Sessions :
        LET ds == Started(s)
            ok == {d \in ds : result[d] = "success"}
        IN  /\ Cardinality(ok) <= 1
            /\ (ds # {} /\ \A d \in ds : pc[d] = "done" /\ result[d] # "error") =>
                  /\ Cardinality(ok) = 1
                  /\ \A d \in ds \ ok :
                        result[d] \in {"already_processing", "already_processed"}
                  /\ Cardinality({o \in OrderIds : orders[o].status # "absent"}) = 1
                  /\ CountAudit(auditLog, CorrelationOf(s), "order.created") = 1

\* three deliveries of one session have returned: one success, one
\* already_processing (it met the lock held), one already_processed
C1_Witness ==
    \E s \in Sessions :
        /\ \E d \in Started(s) : pc[d] = "done" /\ result[d] = "success"
        /\ \E d \in Started(s) : pc[d] = "done" /\ result[d] = "already_processing"
        /\ \E d \in Started(s) : pc[d] = "done" /\ result[d] = "already_processed"
        /\ \A d \in Started(s) : result[d] # "error"

\* C2: once a delivery of a session has returned success, exactly one
\* order.queued event of that transaction is on the event bus.
C2_OneOrderQueued ==
    \A s \in Sessions :
        (\E d \in Started(s) : result[d] = "success") =>
            CountQueued(busEvents, CorrelationOf(s)) = 1

\* C3: a delivery that enters after a failed attempt of its session, with
\* the brief cached by then, returns success.
C3_RetrySucceeds ==
    \A d \in Deliveries : (pc[d] = "done" /\ retry[d]) => result[d] = "success"

\* C4 as amended: from a state in which the key of a session is completed,
\* every step leaves it completed, lets no delivery of that session past
\* try_acquire, ends a delivery of that session only with already_processed
\* or (another delivery holding the session lock) already_processing, lets
\* no delivery of that session write the order store, and appends no
\* payment.confirmed or order.created entry of that transaction.
InertStep(s, outcomes) ==
    is_completed(records, KeyOf(s)) =>
        /\ is_completed(records', KeyOf(s))
        /\ \A h \in Deliveries : ~CanAcquire(idemLock', records', KeyOf(s), h)
        /\ \A d \in Deliveries :
              dsession'[d] = s =>
                 /\ pc'[d] \notin PastAcquire
                 /\ (pc[d] # "done" /\ pc'[d] = "done") => result'[d] \in outcomes
        /\ orders' # orders =>
              \E d \in Deliveries :
                 /\ pc[d] \in {"save_confirmed", "save_queued"}
                 /\ pc'[d] # pc[d]
                 /\ dsession[d] # s
        /\ CountAudit(auditLog', CorrelationOf(s), "payment.confirmed")
              = CountAudit(auditLog, CorrelationOf(s), "payment.confirmed")
        /\ CountAudit(auditLog', CorrelationOf(s), "order.created")
              = CountAudit(auditLog, CorrelationOf(s), "order.created")

C4_CompletedIsInert ==
    [][\A s \in Sessions : InertStep(s, {"already_processed", "already_processing"})]_vars

\* C4 as claimed: every later delivery returns already_processed.
C4_AlwaysAlreadyProcessed ==
    [][\A s \in Sessions : InertStep(s, {"already_processed"})]_vars

\* a delivery that arrived after the completion has returned already_processed
C4_Witness ==
    \E d \in Deliveries :
        /\ pc[d] = "done" /\ result[d] = "already_processed"
        /\ is_completed(records, KeyOf(dsession[d]))

\* C5: at most one caller holds a key: a caller holds it from the try_acquire
\* that returned True to its own release or mark_completed.
C5_AtMostOneHolder ==
    \A k \in Sessions :
        Cardinality({h \in Callers : cstate[h] = "holding" /\ ckey[h] = KeyOf(k)}) <= 1

\* one caller holds the key while another, that saw the lock free before,
\* is inside try_acquire for the same key
C5_Witness ==
    \E h1, h2 \in Callers :
        /\ h1 # h2
        /\ cstate[h1] = "holding" /\ cstate[h2] = "acquire_wait"
        /\ ckey[h1] = ckey[h2]

\* C6: the Order stored under an order id never has its version decrease
\* and never has its status move backward.
C6_StoredOrderMonotone ==
    [][\A o \in OrderIds :
          orders[o].status # "absent" =>
             /\ orders'[o].version >= orders[o].version
             /\ \/ orders'[o].status = orders[o].status
                \/ Forward(orders[o].status, orders'[o].status)]_vars

\* C7: transition_to yields a snapshot only for a status reachable forward
\* from the current one.
C7_OnlyForward ==
    [][Forward(cur.status, cur'.status)]_vars

\* C8: the step that handles charge.refunded for the charge that paid a
\* session leaves every stored Order of that payment in status refunded.
C8_RefundSetsRefunded ==
    [][\A s \in Sessions :
          (/\ Len(auditLog') = Len(auditLog) + 1
           /\ auditLog'[Len(auditLog')].event_type = "payment.refunded"
           /\ auditLog'[Len(auditLog')].entity_id = ChargeOf(s)) =>
             \A o \in OrderIds :
                orders[o].stripe_payment_intent_id = PaymentIntentOf(s) =>
                   orders'[o].status = "refunded"]_vars

\* the successful attempts logged for a token
Successes(h) == Len(SelectSeq(attempts, LAMBDA a : a.token = h /\ a.success))

\* C9: a token with max_downloads = k never has more than k successful
\* exchanges logged, however the exchange calls interleave.
C9_AtMostKSuccesses ==
    \A h \in TokenHashes :
        tokStored[h] # 0 => Successes(h) <= heap[tokStored[h]].max_downloads

\* C10: every DeliveryToken the token store holds has
\* download_count <= max_downloads.
C10_CountWithinQuota ==
    \A h \in TokenHashes :
        tokStored[h] # 0 =>
            heap[tokStored[h]].download_count <= heap[tokStored[h]].max_downloads

\* a stored token whose count reached its quota through exchanges that
\* raced (more successes logged than the quota), after a revocation
C10_Witness ==
    \E h \in TokenHashes :
        /\ tokStored[h] # 0
        /\ heap[tokStored[h]].download_count = heap[tokStored[h]].max_downloads
        /\ Successes(h) > heap[tokStored[h]].max_downloads
        /\ \E i \in 1..Len(heap) : heap[i].status = "revoked"

\* the logged attempts whose timestamp lies after their token's expires_at
LateAttempts == {i \in 1..Len(attempts) : attempts[i].after_expiry}

\* C11: an exchange whose attempt is made after the token's expires_at goes
\* from validation straight to logging a failure with the reason
\* token_expired, whatever the token's status and count: it has had no
\* signed URL generated, never reaches the update of download_count, and
\* its logged attempt is a failure with the reason token_expired.
C11_ExpiredAlwaysFails ==
    /\ \A e \in Exchanges :
          eafter[e] => /\ epc[e] = "log_failure"
                       /\ ereason[e] = "token_expired"
                       /\ \A u \in urls : u.by # e
    /\ \A i \in LateAttempts :
          /\ ~attempts[i].success
          /\ attempts[i].failure_reason = "token_expired"

\* an exchange made after expiry has failed although the stored token is
\* active with downloads left, and another has failed on a revoked token
C11_Witness ==
    \E i, j \in LateAttempts :
        /\ i < j
        /\ heap[tokStored[attempts[j].token]].status = "revoked"
        /\ \E n \in 1..Len(heap) :
              /\ heap[n].status = "active"
              /\ heap[n].download_count < heap[n].max_downloads

\* C12: an exchange reaches the URL generator only from a validation that
\* found its token active, not expired and under quota; a signed storage URL
\* comes into being only in the step of such an exchange; no exchange that
\* returned a failure had one generated; and every delivery email carries
\* the portal URL of the raw token, never a storage URL.
C12_StorageUrlOnlyInValidExchange ==
    [][/\ \A e \in Exchanges :
             (epc[e] # "generate_url" /\ epc'[e] = "generate_url") =>
                /\ epc[e] = "validate"
                /\ etok[e] # 0
                /\ heap[etok[e]].status = "active"
                /\ ehash[e] \notin expired
                /\ heap[etok[e]].download_count < heap[etok[e]].max_downloads
       /\ urls' # urls =>
             \E e \in Exchanges :
                /\ epc[e] = "generate_url" /\ epc'[e] = "update"
                /\ urls' = urls \cup {[by |-> e, url |-> StorageUrl(ehash[e])]}
       /\ \A u \in urls' : eresult'[u.by] # "failure"
       /\ \A m \in emails' : m.download_url = PortalUrl(m.token)]_vars

\* the delivery email is out, one exchange got a signed URL and succeeded,
\* and another exchange failed
C12_Witness ==
    /\ emails # {}
    /\ \E u \in urls : eresult[u.by] = "success"
    /\ \E e \in Exchanges : eresult[e] = "failure"

\* C13: once the task of a webhook whose handler raised has ended, the event
\* has been attempted max_attempts times and sits in the dead-letter queue
\* with status dead_letter_queue.
C13_FailedReachesDlq ==
    \A w \in Webhooks :
        (wpc[w] = "done" /\ wevent[w].status # "completed") =>
            /\ wevent[w].attempt_count = wevent[w].max_attempts
            /\ w \in dlqQueue
            /\ wevent[w].status = "dead_letter_queue"

\* the positions of the entries of one type in the audit trail of a
\* correlation id, as get_by_correlation_id returns it
TrailPositions(corr, type) ==
    LET trail == get_by_correlation_id(auditLog, corr)
    IN  {i \in 1..Len(trail) : trail[i].event_type = type}

\* C14: the audit trail of a session's correlation id never holds more than
\* one payment.confirmed and one order.created entry, an order.created entry
\* only after a payment.confirmed entry, and once a delivery of the session
\* has returned success it holds exactly one of each.
C14_OneConfirmedThenCreated ==
    \A s \in Sessions :
        LET confirmed == TrailPositions(CorrelationOf(s), "payment.confirmed")
            created == TrailPositions(CorrelationOf(s), "order.created")
        IN  /\ Cardinality(confirmed) <= 1
            /\ Cardinality(created) <= 1
            /\ \A j \in created : \E i \in confirmed : i < j
            /\ (\E d \in Started(s) : result[d] = "success") =>
                  Cardinality(confirmed) = 1 /\ Cardinality(created) = 1

\* three deliveries of one session have all returned, one with success, and
\* the trail holds its two entries
C14_Witness ==
    \E s \in Sessions :
        /\ Cardinality(Started(s)) = NDeliveries
        /\ \A d \in Started(s) : pc[d] = "done"
        /\ \E d \in Started(s) : result[d] = "success"
        /\ TrailPositions(CorrelationOf(s), "order.created") # {}

C16_InvalidSignatureNoEffect ==
    [][\A w \in Webhooks :
          /\ (wpc[w] # "rejected" /\ wpc'[w] = "rejected") =>
                /\ wpc[w] = "idle"
                /\ auditLog' = auditLog
                /\ orders' = orders
                /\ records' = records /\ idemLock' = idemLock
                /\ dlqQueue' = dlqQueue
                /\ wevent' = wevent
                /\ \A x \in Webhooks \ {w} : wpc'[x] = wpc[x]
          /\ wpc'[w] = "rejected" => wevent'[w] = NoEvent
          /\ wpc'[w] \notin {"idle", "rejected"} => wevent'[w].signed]_vars

\* a call with an invalid signature was rejected while an earlier, validly
\* signed webhook had already been audited
C16_Witness ==
    \E w, x \in Webhooks :
        /\ wpc[w] = "rejected"
        /\ wpc[x] \notin {"idle", "rejected", "audit_received"}
        /\ auditLog # <<>>

\* C17: a delivery that finds its brief missing takes, from briefs.get to
\* its return, only steps that save no Order, append no audit entry and
\* leave its idempotency key not completed, and it ends with an error.
C17_MissingBriefFabricatesNothing ==
    [][\A d \in Deliveries :
          /\ (pc[d] = "get_brief" /\ pc'[d] # pc[d]
                /\ BriefOf(dsession[d]) \notin briefCache) =>
                pc'[d] = "release_missing"
          /\ (pc[d] \in {"get_brief", "release_missing", "release_except"}
                /\ pc'[d] # pc[d]
                /\ pc'[d] \in {"release_missing", "release_except", "done"}) =>
                /\ orders' = orders
                /\ auditLog' = auditLog
                /\ ~is_completed(records', KeyOf(dsession[d]))
                /\ pc'[d] = "done" => result'[d] = "error"]_vars

\* a delivery has failed on the missing brief, no Order stored; and (the
\* brief cached since) a delivery of the other session has succeeded
C17_Witness ==
    \E d, e \in Deliveries :
        /\ pc[d] = "done" /\ result[d] = "error"
        /\ pc[e] = "done" /\ result[e] = "success"
        /\ ~is_completed(records, KeyOf(dsession[d]))

\* C18: a conversation.cards_complete published on the started in-process bus
\* leads to brief.assembled and payment.session_created and the publish call
\* returns.  Only the task that holds the bus lock can release it, so the
\* claim needs that such a task can always take its next step: acquire the
\* lock for the publish it has reached, enter the next handler, or return.
C18_LockHolderCanProceed ==
    \A p \in Publishers : busLock = p => ENABLED PublisherStep(p)

\* C19: after an attempt of a session was aborted by the lock timeout, a later
\* delivery of that session gets the session lock and the idempotency key and
\* completes the order.  A delivery that holds the session lock while an
\* aborted attempt of its session (and no failed one) lies behind it is
\* therefore never turned away with processing_elsewhere.
C19_AfterTimeoutNotRefused ==
    [][\A e \in Deliveries :
          (/\ pc[e] = "not_acquired" /\ pc'[e] = "done"
           /\ \E d \in Deliveries :
                 dsession[d] = dsession[e] /\ result[d] = "lock_timeout"
           /\ \A d \in Deliveries :
                 dsession[d] = dsession[e] => result[d] # "error")
          => result'[e] # "processing_elsewhere"]_vars

\* C20: the breaker's state changes only closed -> open, open -> half_open,
\* half_open -> closed (on a recorded success) and half_open -> open (on a
\* recorded failure); it leaves closed exactly when the failure_threshold-th
\* failure in a row (no success between) is recorded; it leaves open only when
\* reset_timeout has elapsed since the last recorded failure.
C20_BreakerTransitions ==
    [][/\ cb_state' # cb_state =>
           \/ cb_state = "closed" /\ cb_state' = "open"
           \/ cb_state = "open" /\ cb_state' = "half_open"
           \/ /\ cb_state = "half_open" /\ cb_state' = "closed"
              /\ cbCall' = "record_success"
           \/ /\ cb_state = "half_open" /\ cb_state' = "open"
              /\ cbCall' = "record_failure"
       /\ cb_state = "closed" =>
           (cb_state' # "closed" <=>
               /\ streak = failure_threshold - 1
               /\ streak' = failure_threshold)
       /\ (cb_state = "open" /\ cb_state' # "open") =>
           /\ last_failure_time # -1
           /\ now - last_failure_time >= reset_timeout]_vars

\* the breaker opened, waited out the timeout, was probed and closed again
C20_Witness ==
    /\ cbPrev = "half_open"
    /\ cb_state = "closed"
    /\ cbCall = "record_success"
    /\ last_failure_time # -1
    /\ now - last_failure_time >= reset_timeout

\* C21: while the breaker is half-open, can_execute returns True to one
\* caller only until an outcome has been recorded: at most one caller is
\* admitted to a half-open phase.
C21_OneTrialWhenHalfOpen ==
    cb_state = "half_open" => trials <= 1

\* how often handler h has been called with the event recorded at position e
CallsOf(log, h, e) ==
    Cardinality({i \in 1..Len(log) : log[i].handler = h /\ log[i].event = e})

\* C22: on a connected bus publish calls every handler subscribed to the
\* event's type exactly once with that event and no handler subscribed only
\* to other types; with no subscriber it records the event and returns.
\* Every call made is the first call of a handler subscribed to the type of
\* the recorded event, and when a publish call returns, each handler has been
\* called once if it is subscribed to the type and not at all otherwise.
C22_FanOutToSubscribers ==
    [][/\ calls' # calls =>
           LET c == calls'[Len(calls')] IN
           /\ c.event \in 1..Len(published)
           /\ \E i \in 1..Len(handlers[published[c.event].event_type]) :
                 handlers[published[c.event].event_type][i] = c.handler
           /\ CallsOf(calls, c.handler, c.event) = 0
       /\ \A p \in Publishers :
           (bpc[p] = "dispatch" /\ Len(frames'[p]) < Len(frames[p])) =>
               LET f == Innermost(p) IN
               /\ connected
               /\ f.event \in 1..Len(published)
               /\ published[f.event].event_type = f.event_type
               /\ \A h \in Handlers :
                     CallsOf(calls, h, f.event) =
                        IF \E i \in 1..Len(handlers[f.event_type]) :
                              handlers[f.event_type][i] = h
                        THEN 1 ELSE 0]_vars

\* one publish has returned with no handler called, another with two
C22_Witness ==
    \E i, j \in 1..Len(published) :
        /\ bpc[published[i].correlation_id] = "returned"
        /\ bpc[published[j].correlation_id] = "returned"
        /\ \A h \in Handlers : CallsOf(calls, h, i) = 0
        /\ \E g, h \in Handlers :
              g # h /\ CallsOf(calls, g, j) = 1 /\ CallsOf(calls, h, j) = 1
        /\ \E h \in Handlers :
              IsSubscribed(handlers, h) /\ CallsOf(calls, h, j) = 0

\* C23: a handler that raises during dispatch does not stop the bus.  The
\* step in which a handler raises leaves the publish call dispatching with
\* the lock held; a publish call that returns after a handler has raised, for
\* its own event or an earlier one, has called every handler subscribed to its
\* event's type once, returns normally and leaves the lock free.
C23_RaisingHandlerIsContained ==
    [][\A p \in Publishers :
          /\ (calls' # calls /\ calls'[Len(calls')].raised /\ bpc[p] = "dispatch"
                 /\ frames'[p] # frames[p]) =>
                /\ bpc'[p] = "dispatch"
                /\ busLock' = p
                /\ Len(frames'[p]) = Len(frames[p])
          /\ (/\ bpc[p] = "dispatch" /\ Len(frames'[p]) < Len(frames[p])
              /\ \E i \in 1..Len(calls) :
                    calls[i].raised /\ calls[i].event <= Innermost(p).event) =>
                /\ \A h \in Handlers :
                      (\E i \in 1..Len(handlers[Innermost(p).event_type]) :
                          handlers[Innermost(p).event_type][i] = h)
                      => CallsOf(calls, h, Innermost(p).event) = 1
                /\ bpc'[p] \in {"returned", "dispatch"}
                /\ busLock' = 0]_vars

\* a handler raised, the next handler of the same event was still called, the
\* publish returned, and a later event was handled without an exception
C23_Witness ==
    \E k, m, n \in 1..Len(calls) :
        /\ k < m /\ m < n
        /\ calls[k].raised
        /\ calls[m].event = calls[k].event /\ calls[m].handler # calls[k].handler
        /\ calls[n].event > calls[k].event /\ ~calls[n].raised
        /\ \A p \in Publishers : bpc[p] = "returned"

\* C24: however often production-completed is delivered for an order, exactly
\* one DeliveryToken exists for it: the order's token list never holds more
\* than one token.
C24_OneTokenPerOrder ==
    \A o \in OrderIds : Len(byOrder[o]) <= 1

\* C25: exchange_token_for_download always returns a result: a call that
\* found no token, an invalid token (expired, revoked, exhausted) or whose
\* URL generation failed returns success = false; the step on which a call
\* returns appends exactly one DownloadAttempt, carrying the call's
\* ip_address and user_agent and a success flag equal to the success
\* returned, and no other step touches the audit log
C25_EveryCallLogsItsAttempt ==
    [][/\ \A e \in Exchanges :
            (epc[e] # "done" /\ epc'[e] = "done") =>
                /\ eresult'[e] \in {"success", "failure"}
                /\ (etok[e] = 0 \/ ereason[e] # "none") => eresult'[e] = "failure"
                /\ Len(attempts') = Len(attempts) + 1
                /\ SubSeq(attempts', 1, Len(attempts)) = attempts
                /\ LET a == attempts'[Len(attempts')] IN
                      /\ a.token = ehash[e]
                      /\ a.ip_address = IpOf(e)
                      /\ a.user_agent = UserAgentOf(e)
                      /\ a.success = (eresult'[e] = "success")
       /\ attempts' # attempts =>
            \E e \in Exchanges : epc[e] # "done" /\ epc'[e] = "done"]_vars

\* every kind of call has returned and is in the audit log: one that
\* succeeded, one refused for a revoked token, one whose URL generation
\* failed, from both requesters
C25_Witness ==
    /\ \A e \in Exchanges : epc[e] = "done"
    /\ Len(attempts) = NExchanges
    /\ \E i, j, k \in 1..Len(attempts) :
          /\ attempts[i].success
          /\ attempts[j].failure_reason = "token_revoked"
          /\ attempts[k].failure_reason = "url_generation_failed"
          /\ attempts[i].ip_address # attempts[j].ip_address

\* C26: a stored token whose status is revoked never has the status active
\* on the next step, whatever exchanges of it are in flight
C26_RevokedNeverActiveAgain ==
    [][\A h \in TokenHashes :
          (tokStored[h] # 0 /\ heap[tokStored[h]].status = "revoked") =>
              heap'[tokStored'[h]].status # "active"]_vars

\* the notifications to a recipient that stand bounced within the last 7 days
BouncedNotifications(recs, email) ==
    {n \in Notifications :
        /\ recs[n].recipient_email = email
        /\ recs[n].status = "bounced"
        /\ recs[n].bounced_at = "recent"}

\* C27: the alert raised for a bounce has severity high exactly when the
\* recipient has at least BOUNCE_ALERT_THRESHOLD notifications bounced within
\* the last 7 days, this one included
C27_HighFromThirdBounce ==
    [][Len(alerts') = Len(alerts) + 1 =>
          LET a == alerts'[Len(alerts')] IN
          a.alert_type = "bounce" =>
              (a.severity = "high" <=>
                  Cardinality(BouncedNotifications(nrec', a.recipient_email))
                      >= BOUNCE_ALERT_THRESHOLD)]_vars

\* C28: no step moves the status of a NotificationRecord backward along
\* pending -> sent -> delivered -> opened/clicked, or out of bounced/dropped
\* to an earlier status
C28_StatusNeverMovesBackward ==
    [][LET StatusRank(status) ==
               CASE status = "none" -> 0
                 [] status = "pending" -> 1
                 [] status = "sent" -> 2
                 [] status = "delivered" -> 3
                 [] status \in {"opened", "clicked"} -> 4
                 [] status \in {"bounced", "dropped"} -> 5
       IN  \A n \in Notifications :
               StatusRank(nrec'[n].status) >= StatusRank(nrec[n].status)]_vars

\* C29: every step of a webhook whose event type has no registered handler
\* leaves the order store, the idempotency store and the dead-letter queue
\* as they are; routing it returns None and never raises, so the task never
\* turns to the dead-letter queue, and it ends with the event COMPLETED and
\* the webhook.processed audit entry written
C29_UnhandledTypeIsIgnored ==
    [][\A w \in Webhooks :
          (wpc'[w] # wpc[w] /\ wevent'[w].event_type \in HookTypes \ RegisteredTypes) =>
              /\ orders' = orders /\ records' = records /\ idemLock' = idemLock
              /\ dlqQueue' = dlqQueue
              /\ wpc'[w] \notin {"enqueue", "audit_dlq"}
              /\ wpc[w] = "route" =>
                    wresult'[w] = "None" /\ wevent'[w].status = "completed"
              /\ wpc'[w] = "done" =>
                    /\ wevent'[w].status = "completed"
                    /\ auditLog' = Append(auditLog,
                          AuditEntry(HookCorrelation(w), "webhook.processed",
                                     StripeEventId(w)))]_vars

\* a webhook of a type without handler has been processed to its end, while
\* one of a handled type went to the dead-letter queue
C29_Witness ==
    \E w, x \in Webhooks :
        /\ wpc[w] = "done" /\ wevent[w].event_type \notin RegisteredTypes
        /\ wresult[w] = "None" /\ wevent[w].status = "completed"
        /\ x \in dlqQueue

\* C30: the step that handles checkout.session.expired for a session
\* appends the session.expired audit entry of that session and changes
\* neither the order store nor the idempotency store, nor anything else the
\* gateway keeps
C30_SessionExpiredOnlyAudits ==
    [][\A s \in Sessions :
          OnSessionExpired(s) =>
              /\ orders' = orders
              /\ records' = records /\ idemLock' = idemLock
              /\ briefCache' = briefCache /\ busEvents' = busEvents
              /\ auditLog' = Append(auditLog,
                    AuditEntry(CorrelationOf(s), "session.expired", s))]_vars

\* a session of the brief has expired while the order of the brief, paid
\* through the other session, is stored; and the other way round, the
\* expiry is in the log before any order exists
C30_Witness ==
    /\ \E i \in 1..Len(auditLog) : auditLog[i].event_type = "session.expired"
    /\ \E o \in OrderIds : orders[o].status = "queued"
    /\ auditLog[Len(auditLog)].event_type = "session.expired"

\* C31: a checkout.session.completed delivery whose amount does not match
\* the tier's price takes the steps of a matching one: with the brief found
\* it goes on to save the Order as payment_confirmed with the amount paid,
\* saves it as queued, and marks the idempotency key completed when it
\* returns success
C31_MismatchNeverBlocks ==
    [][\A d \in Deliveries :
          (/\ pc[d] # "idle" /\ pc'[d] # pc[d]
           /\ ~validate_amount(PaymentTierOf(BriefOf(dsession[d])),
                               AmountOf(dsession[d]))) =>
              LET s == dsession[d]
                  oid == generate_order_id(BriefOf(s))
              IN  /\ (pc[d] = "get_brief" /\ BriefOf(s) \in briefCache) =>
                        pc'[d] = "save_confirmed"
                  /\ pc[d] = "save_confirmed" =>
                        /\ orders'[oid].status = "payment_confirmed"
                        /\ orders'[oid].stripe_session_id = s
                        /\ orders'[oid].amount_paid = AmountOf(s) \div 100
                        /\ pc'[d] = "audit_confirmed"
                  /\ pc[d] = "save_queued" =>
                        /\ orders'[oid].status = "queued"
                        /\ orders'[oid].stripe_session_id = s
                        /\ pc'[d] = "audit_created"
                  /\ pc[d] = "mark_completed" =>
                        /\ records'[KeyOf(s)].status = "completed"
                        /\ result'[d] = "success"]_vars

\* a delivery with a mismatching amount and one with a matching amount have
\* both returned success
C31_Witness ==
    \E d, e \in Deliveries :
        /\ result[d] = "success" /\ result[e] = "success"
        /\ ~validate_amount(PaymentTierOf(BriefOf(dsession[d])), AmountOf(dsession[d]))
        /\ validate_amount(PaymentTierOf(BriefOf(dsession[e])), AmountOf(dsession[e]))

C33_TransitionIsPure ==
    [][\A t \in OrderStatus :
          Transition(t) =>
              /\ cur'.status = t
              /\ cur'.previous_status = cur.status
              /\ cur'.version = cur.version + 1
              /\ \A f \in DOMAIN cur \ {"status", "previous_status", "version"} :
                    cur'[f] = cur[f]
              /\ before' = cur]_vars

\* an Order has been transitioned twice, the second time to another status
C33_Witness ==
    /\ cur.version = 3 /\ before.version = 2
    /\ cur.status # before.status
    /\ cur.previous_status = before.status

\* C34: a call through with_circuit_breaker that starts while the breaker is
\* open and reset_timeout has not elapsed since the last failure is rejected
\* on the spot: the wrapped function is not called, and the state, the
\* failure count and the last failure time of the breaker stay as they are
C34_OpenBreakerRejectsAtOnce ==
    [][\A c \in WrappedCalls :
          (/\ wcall[c] = "idle" /\ wcall'[c] # "idle"
           /\ cb_state = "open"
           /\ ~TimeoutElapsed(now, last_failure_time, reset_timeout)) =>
              /\ wcall'[c] = "rejected"
              /\ invocations' = invocations
              /\ cb_state' = "open"
              /\ cb_failures' = cb_failures
              /\ last_failure_time' = last_failure_time]_vars

\* a call has been rejected by the open breaker, after the calls that
\* opened it had invoked the wrapped function
C34_Witness ==
    /\ \E c \in WrappedCalls : wcall[c] = "rejected"
    /\ cb_state = "open"
    /\ invocations >= 1

\* C35: release(key, holder_id) returns True and leaves the key's lock free
\* when holder_id is the recorded lock holder of key; by any other holder,
\* or for a key without a record, it returns False and leaves the records
\* and the locks as they were
C35_OnlyTheHolderReleases ==
    [][\A h \in Callers, k \in Sessions :
          CallRelease(h, KeyOf(k)) =>
              IF /\ records[KeyOf(k)].status # "absent"
                 /\ records[KeyOf(k)].lock_holder = h
              THEN cret' = "True" /\ ~idemLock'[KeyOf(k)]
              ELSE /\ cret' = "False"
                   /\ records' = records
                   /\ idemLock' = idemLock]_vars

\* a caller holds the key of one session after a release was refused and
\* another release went through
C35_Witness ==
    /\ cret = "False"
    /\ \E h \in Callers : cstate[h] = "holding"
    /\ \E k \in Sessions :
          /\ records[KeyOf(k)].status = "processing"
          /\ records[KeyOf(k)].lock_holder = NoHolder

\* C36: once no publish call is under way, a handler that raised on an
\* event has been called on that event again, until a call returned or
\* MAX_RETRIES calls were made
C36_RaisingHandlerIsCalledAgain ==
    (busLock = 0 /\ \A p \in Publishers : bpc[p] \notin {"acquire", "dispatch"}) =>
        \A i \in DOMAIN calls :
            calls[i].raised =>
                LET Attempts == {j \in DOMAIN calls :
                                   /\ calls[j].handler = calls[i].handler
                                   /\ calls[j].event = calls[i].event}
                IN \/ \E j \in Attempts : ~calls[j].raised
                   \/ Cardinality(Attempts) >= MAX_RETRIES

\* C37: whenever the idempotency record of a checkout session is completed,
\* the order store holds an Order of that session (its stripe_session_id)
\* whose status is queued or a later one
C37_CompletedSessionHasQueuedOrder ==
    \A s \in Sessions :
        records[KeyOf(s)].status = "completed" =>
            \E o \in OrderIds :
                /\ orders[o].status # "absent"
                /\ orders[o].stripe_session_id = s
                /\ Rank(orders[o].status) >= Rank("queued")

\* C38: in every state of the circuit breaker, a closed breaker has counted
\* fewer failures than failure_threshold, and an open or half-open breaker
\* has a last failure time recorded
C38_BreakerStateConsistent ==
    /\ cb_state = "closed" => cb_failures < failure_threshold
    /\ cb_state \in {"open", "half_open"} => last_failure_time # -1

\* a closed breaker one failure short of opening, and a half-open one
\* (reached in another run), are both states the breaker gets to
C38_Witness ==
    /\ cb_state = "closed"
    /\ failure_threshold >= 2
    /\ cb_failures = failure_threshold - 1
    /\ cbCall = "record_failure"

\* C39: an exchange whose URL generation fails consumes no quota: from the
\* failure of the generator to the return of the call, the token objects
\* and the stored token of every hash (its download_count and status, and
\* so whether a later exchange finds it valid) stay as they are
C39_FailedGenerationConsumesNothing ==
    [][\A e \in Exchanges :
          (\/ epc[e] = "generate_url" /\ epc'[e] = "log_failure"
           \/ /\ epc[e] = "log_failure" /\ epc'[e] = "done"
              /\ ereason[e] = "url_generation_failed") =>
              /\ heap' = heap
              /\ tokStored' = tokStored
              /\ \A h \in TokenHashes :
                    tokStored[h] # 0 =>
                       is_valid(heap'[tokStored'[h]], h \in expired') =
                       is_valid(heap[tokStored[h]], h \in expired)]_vars

\* an exchange of a token failed in the URL generator and a later exchange
\* of the same token succeeded
C39_Witness ==
    \E i, j \in DOMAIN attempts :
        /\ i < j
        /\ attempts[i].failure_reason = "url_generation_failed"
        /\ attempts[j].success
        /\ attempts[j].token = attempts[i].token
        /\ heap[tokStored[attempts[i].token]].download_count = 1

\* C40: health_check reports every component (the event bus and the four
\* integrations) as not healthy before start() and once stop() has
\* completed, and every component as healthy once start() has completed
C40_HealthFollowsRunning ==
    [][LET Report == health_check(connected', started')
       IN /\ (started = {} /\ ~connected /\ UNCHANGED <<connected, started>>) =>
                \A c \in DOMAIN Report : ~Report[c]
          /\ PipelineStart => \A c \in DOMAIN Report : Report[c]
          /\ Disconnect => \A c \in DOMAIN Report : ~Report[c]]_vars
====
